---- MODULE Spec2Model ----
(***************************************************************************)
(* Boundary Analyzer and Block Classifier of the disassembler core         *)
(* (processor/src/blocks.rs).  The section catalog, the decoder's answers  *)
(* and the symbol index are inputs fixed at load time; the analysis fans   *)
(* out one worker per section, joins them in order, sorts and dedups, and  *)
(* afterwards parse_blocks is queried address by address.                  *)
(* SpecIndex builds the Symbol Index of symbols/src/lib.rs (parse_debug,   *)
(* parse_imports, label, get_by_addr); SpecDemangler calls its parser().   *)
(***************************************************************************)
EXTENDS Integers, Sequences, FiniteSets, TLC

\* ---------------------------------------------------------------- bounds
MaxCodeLen == 3      \* longest Code section explored with every decoder answer
MaxWidth == 2        \* widest instruction / decode error the decoder reports
MaxStrLen == 4       \* longest CString section explored with every byte string
MaxStrides == 2      \* strided sections span up to this many whole strides
MaxPairLen == 1      \* section length in the two-section catalogs
MaxParts == 3        \* pieces (letters and linker suffixes) of a raw name
MaxSymbols == 2      \* native symbols of the debug and label inputs
MaxRelocs == 1       \* dynamic relocations of the ELF inputs
MaxThunks == 2       \* thunks of the first PE import descriptor
MaxLabelRuns == 2    \* how often label() is run on one index

\* ------------------------------------------------------ program constants
BYTES_BLOCK_SIZE == 256
PTR32_SIZE == 4
PTR64_SIZE == 8
ELF32DYN_SIZE == 8
USIZE_MAX == 2147483647   \* stands for usize::MAX: larger than any slice

Base == 1            \* lowest mapped address; address 0 is unmapped
NoAddr == -1
NoSection == 0

Kinds == {"Code", "CString", "Ptr32", "Ptr64", "Got32", "Got64",
          "Elf32Dyn", "Unloaded", "Debug", "Unknown"}

VARIABLES
    sections,      \* the Section Catalog: sequence of [kind, start, end, bytes]
    instructions,  \* decoder: address -> instruction width (0: no instruction)
    errors,        \* decoder: address -> decode error size (0: no error)
    index,         \* Symbol Index: the addresses that hold a function
    endianness,    \* "little" or "big"
    pc,            \* compute_block_boundaries: "spawn", "join", "merge", "done"
    next,          \* next section to spawn / next thread to join
    wpc,           \* per worker: "idle","ready","scan","done","joined","overflow"
    waddr,         \* per worker: addr of compute_code_boundaries
    wbounds,       \* per worker: its local boundaries Vec
    boundaries,    \* the Vec of compute_block_boundaries
    query,         \* the address last handed to parse_blocks (NoAddr: none yet)
    result         \* what that call did: [panic, blocks]

\* The Symbol Index (symbols/src/lib.rs) and the demangler in front of it.
VARIABLES
    object,        \* the loaded object file: symbols, entry point, imports
    tree,          \* Index::tree: Vec of [addr, name, module, intrinsic]
    named_len,     \* Index::named_len
    ipc,           \* life of the Index: "new", "debug", "imports"
    labelled,      \* how many times label() has run
    lookup,        \* the last get_by_addr call: [addr, found]
    raw_name,      \* the name handed to parser()
    accepting,     \* the mangling schemes that accept the name they are given
    demangled      \* what parser() did: [called, handed, stream]

\* Rendering of one block (Block::len, Block::tokenize).
VARIABLES
    block,         \* the Block handed to tokenize
    stream,        \* the TokenStream: the Vec of tokens `inner`
    stream0,       \* the stream as it was before tokenize was called
    tokenized      \* whether tokenize has been called

rendervars == <<block, stream, stream0, tokenized>>

\* The terminal widget and the commands UI::run takes from it each frame.
VARIABLES
    terminal,      \* the Terminal: commands, command_position,
                   \* commands_unprocessed, cursor_position, suggestion
    taken          \* the last take_commands call: [panicked, from, ncmds]

termvars == <<terminal, taken>>

\* The loading of a binary off the UI thread (UI, UIQueue, panels.loading).
VARIABLES
    loading,       \* panels.loading
    ui_queue,      \* the events in the UIQueue, oldest first
    workers,       \* the binary-loading threads that exist: [pc, event]
    started        \* whether process_args has run and UI::run has begun

loadvars == <<loading, ui_queue, workers, started>>
newvars == <<rendervars, termvars, loadvars>>

symvars == <<object, tree, named_len, ipc, labelled, lookup>>
demvars == <<raw_name, accepting, demangled>>
blockvars == <<sections, instructions, errors, index, endianness, pc, next,
               wpc, waddr, wbounds, boundaries, query, result>>

vars == <<sections, instructions, errors, index, endianness, pc, next,
          wpc, waddr, wbounds, boundaries, query, result,
          object, tree, named_len, ipc, labelled, lookup,
          raw_name, accepting, demangled,
          block, stream, stream0, tokenized,
          terminal, taken,
          loading, ui_queue, workers, started>>

inputs == <<sections, instructions, errors, index, endianness>>

\* ------------------------------------------------------------- sequences
Range(s) == {s[i] : i \in DOMAIN s}

Min(S) == CHOOSE x \in S : \A y \in S : x <= y

IsPrefix(p, s) == Len(p) <= Len(s) /\ SubSeq(s, 1, Len(p)) = p

Reverse(s) == [i \in 1..Len(s) |-> s[Len(s) + 1 - i]]

IsStrictlyIncreasing(s) == \A i \in 1..(Len(s) - 1) : s[i] < s[i + 1]

\* ------------------------------------------------- collaborators (Section)
\* Section::bytes
bytes(section) == section.bytes

\* Section::bytes_by_addr: the bytes from addr on, at most len of them, fewer
\* when the section's bytes end sooner, none when addr is outside them.
bytes_by_addr(section, addr, len) ==
    LET rva == addr - section.start
        all == section.bytes
        avail == IF rva < 0 \/ rva > Len(all) THEN 0 ELSE Len(all) - rva
        n == IF len > avail THEN avail ELSE len
    IN  IF n = 0 THEN <<>> ELSE SubSeq(all, rva + 1, rva + n)

\* Section::read_at::<T>: Ok exactly when size_of::<T>() bytes lie at addr.
read_at(section, addr, size) ==
    LET got == bytes_by_addr(section, addr, size)
    IN  [ok |-> Len(got) = size, bytes |-> got]

\* Processor::section_by_addr: the first section of the catalog whose range
\* start..=end holds addr (parse_blocks handles addr == section.end itself).
section_by_addr(addr) ==
    LET hits == {i \in DOMAIN sections :
                    sections[i].start <= addr /\ addr <= sections[i].end}
    IN  IF hits = {} THEN NoSection ELSE Min(hits)

\* Processor::sections().find(|sec| sec.start == addr)
find_section_start(addr) ==
    LET hits == {i \in DOMAIN sections : sections[i].start = addr}
    IN  IF hits = {} THEN NoSection ELSE Min(hits)

\* Processor::sections().find(|sec| sec.end == addr)
find_section_end(addr) ==
    LET hits == {i \in DOMAIN sections : sections[i].end = addr}
    IN  IF hits = {} THEN NoSection ELSE Min(hits)

\* ------------------------------------------------ collaborators (decoder)
instruction_by_addr(addr) ==
    IF addr \in DOMAIN instructions THEN instructions[addr] ELSE 0

error_by_addr(addr) ==
    IF addr \in DOMAIN errors THEN errors[addr] ELSE 0

\* Index::get_sym_by_addr: the function at addr (named by its address here).
get_sym_by_addr(addr) == IF addr \in index THEN addr ELSE NoAddr

\* Endian::read_u32_bytes / read_u64_bytes: the value as its base-256 digits,
\* most significant first.
read_bytes(bs) == IF endianness = "little" THEN Reverse(bs) ELSE bs

\* ------------------------------------------------------ Boundary Analyzer
\* The stride loops of compute_section_boundaries:
\*   let mut addr = section.start;
\*   while addr < section.end { boundaries.push(addr); addr += stride; }
RECURSIVE stride_loop(_, _, _)
stride_loop(addr, end, stride) ==
    IF addr < end THEN <<addr>> \o stride_loop(addr + stride, end, stride)
    ELSE <<>>

\* cstring_loop without the test for two consecutive NUL bytes.
RECURSIVE cstring_loop_every_nul(_, _, _)
cstring_loop_every_nul(section, idx, start_off) ==
    IF idx >= Len(bytes(section)) THEN <<>>
    ELSE IF bytes(section)[idx + 1] = 0
         THEN <<section.start + start_off>>
              \o cstring_loop_every_nul(section, idx + 1, idx + 1)
         ELSE cstring_loop_every_nul(section, idx + 1, start_off)

\* The for loop of compute_cstring_boundaries from byte idx on (0-based),
\* start_off being the offset after the last NUL seen.
RECURSIVE cstring_loop(_, _, _)
cstring_loop(section, idx, start_off) ==
    IF idx >= Len(bytes(section)) THEN <<>>
    ELSE IF bytes(section)[idx + 1] = 0
         THEN (IF idx # start_off THEN <<section.start + start_off>> ELSE <<>>)
              \o cstring_loop(section, idx + 1, idx + 1)
         ELSE cstring_loop(section, idx + 1, start_off)

compute_cstring_boundaries(section) == cstring_loop(section, 0, 0)

\* The inner loop of compute_code_boundaries: baddr climbs from addr until it
\* is section.end, or holds an instruction or a decode error, or (being another
\* address than addr) holds a symbol.  The addresses where it would stop:
code_scan_stops(section, addr) ==
    {b \in ({section.end} \cup DOMAIN instructions \cup DOMAIN errors \cup index) :
        /\ b >= addr
        /\ \/ b = section.end
           \/ instruction_by_addr(b) # 0
           \/ error_by_addr(b) # 0
           \/ (addr # b /\ get_sym_by_addr(b) # NoAddr)}

\* One pass of the outer loop of compute_code_boundaries at addr # section.end:
\* what it pushes and where it continues.  overflow: baddr would climb past
\* every address without meeting a stop (the += 1 overflows usize).
code_iteration(section, addr) ==
    LET label == IF get_sym_by_addr(addr) # NoAddr THEN <<addr>> ELSE <<>>
        stops == code_scan_stops(section, addr)
    IN  IF instruction_by_addr(addr) # 0
        THEN [pushed |-> label \o <<addr>>,
              addr |-> addr + instruction_by_addr(addr), overflow |-> FALSE]
        ELSE IF error_by_addr(addr) # 0
        THEN [pushed |-> label \o <<addr>>,
              addr |-> addr + error_by_addr(addr), overflow |-> FALSE]
        ELSE IF stops = {}
        THEN [pushed |-> label, addr |-> addr, overflow |-> TRUE]
        ELSE LET baddr == Min(stops)
                 bytes_len == baddr - addr
             IN  IF bytes_len > 0
                 THEN [pushed |-> label \o <<addr>>, addr |-> baddr,
                       overflow |-> FALSE]
                 ELSE [pushed |-> label, addr |-> addr, overflow |-> FALSE]

\* compute_code_boundaries run to its end from addr: [ok, pushed]; ok is FALSE
\* when the loop never meets addr == section.end.
RECURSIVE compute_code_boundaries(_, _)
compute_code_boundaries(section, addr) ==
    IF addr = section.end THEN [ok |-> TRUE, pushed |-> <<>>]
    ELSE LET it == code_iteration(section, addr)
         IN  IF it.overflow \/ it.addr = addr
             THEN [ok |-> FALSE, pushed |-> it.pushed]
             ELSE LET rest == compute_code_boundaries(section, it.addr)
                  IN  [ok |-> rest.ok, pushed |-> it.pushed \o rest.pushed]

\* stride_of with the 64-bit kinds stepping by 4 and the fallback by 255.
stride_of_narrow(kind) ==
    CASE kind \in {"Ptr32", "Got32", "Ptr64", "Got64"} -> PTR32_SIZE
      [] kind = "Elf32Dyn" -> ELF32DYN_SIZE
      [] OTHER -> BYTES_BLOCK_SIZE - 1

\* The stride of the `while addr < section.end` loop of each kind.
stride_of(kind) ==
    CASE kind \in {"Ptr32", "Got32"} -> PTR32_SIZE
      [] kind \in {"Ptr64", "Got64"} -> PTR64_SIZE
      [] kind = "Elf32Dyn" -> ELF32DYN_SIZE
      [] OTHER -> BYTES_BLOCK_SIZE

\* section_boundaries_head without the early return for empty bytes.
section_boundaries_head_no_empty(section) ==
    IF section.kind \in {"Unloaded", "Debug"}
    THEN [done |-> TRUE, boundaries |-> <<>>]
    ELSE [done |-> FALSE, boundaries |-> <<section.start>>]

\* compute_section_boundaries up to its match on section.kind: the early
\* returns, or the first push.  [done, boundaries]
section_boundaries_head(section) ==
    IF section.kind \in {"Unloaded", "Debug"}
    THEN [done |-> TRUE, boundaries |-> <<>>]
    ELSE IF bytes(section) = <<>>
    THEN [done |-> TRUE, boundaries |-> <<section.start, section.end>>]
    ELSE [done |-> FALSE, boundaries |-> <<section.start>>]

\* section_boundaries_match without the final push of section.end.
section_boundaries_match_no_end(section) ==
    IF section.kind = "CString" THEN compute_cstring_boundaries(section)
    ELSE stride_loop(section.start, section.end, stride_of(section.kind))

\* The arms of the match other than Code, and the final push of section.end.
section_boundaries_match(section) ==
    (IF section.kind = "CString" THEN compute_cstring_boundaries(section)
     ELSE stride_loop(section.start, section.end, stride_of(section.kind)))
    \o <<section.end>>

\* compute_section_boundaries as one call: [ok, boundaries].
compute_section_boundaries(section) ==
    LET head == section_boundaries_head(section)
    IN  IF head.done THEN [ok |-> TRUE, boundaries |-> head.boundaries]
        ELSE IF section.kind = "Code"
        THEN LET code == compute_code_boundaries(section, section.start)
             IN  [ok |-> code.ok,
                  boundaries |-> head.boundaries \o code.pushed \o <<section.end>>]
        ELSE [ok |-> TRUE,
              boundaries |-> head.boundaries \o section_boundaries_match(section)]

\* Vec::dedup: drops every element equal to the one before it.
RECURSIVE dedup(_)
dedup(s) ==
    IF Len(s) <= 1 THEN s
    ELSE IF s[1] = s[2] THEN dedup(Tail(s))
    ELSE <<s[1]>> \o dedup(Tail(s))

\* sort_dedup without the dedup.
sort_only(s) == SortSeq(s, LAMBDA a, b : a < b)

\* boundaries.sort_unstable(); boundaries.dedup();
sort_dedup(s) == dedup(SortSeq(s, LAMBDA a, b : a < b))

\* ------------------------------------------------------- Block Classifier
\* Block { addr, content }: tag is the BlockContent variant, sec the catalog
\* position of a marker's section, sym the symbol of a Label, Got or Pointer
\* (NoAddr: None, or the default symbol of a Got), bytes the bytes carried,
\* size the Got size.
Block(addr, tag, sec, sym, bs, size) ==
    [addr |-> addr, tag |-> tag, sec |-> sec, sym |-> sym, bytes |-> bs,
     size |-> size]

SectionStart(addr, sec) == Block(addr, "SectionStart", sec, NoAddr, <<>>, 0)
SectionEnd(addr, sec) == Block(addr, "SectionEnd", sec, NoAddr, <<>>, 0)

ContentTags == {"Instruction", "Error", "CString", "Got", "Pointer",
                "DataStructure", "Bytes"}

\* What a call leaves behind: the Vec<Block> it returns, or a panic.
Returned(blocks) == [panic |-> FALSE, blocks |-> blocks]
Panicked == [panic |-> TRUE, blocks |-> <<>>]

get_symbol_by_addr_at_start(addr, section) == get_sym_by_addr(addr)

\* Processor::get_symbol_by_addr
get_symbol_by_addr(addr, section) ==
    IF addr = section.start THEN NoAddr ELSE get_sym_by_addr(addr)

\* Processor::parse_datastructure::<Elf32Dyn>
parse_datastructure(addr, section, size) ==
    LET rd == read_at(section, addr, size)
    IN  IF rd.ok
        THEN Returned(<<Block(addr, "DataStructure", NoSection, NoAddr, rd.bytes, 0)>>)
        ELSE Returned(<<>>)

\* Processor::parse_got
parse_got(addr, size, section) ==
    Returned(<<Block(addr, "Got", NoSection, get_symbol_by_addr(addr, section),
                     <<>>, size)>>)

\* Processor::parse_pointer: bytes.try_into().unwrap() panics unless exactly
\* size bytes were read.
parse_pointer(addr, section, size) ==
    LET bs == bytes_by_addr(section, addr, size)
    IN  IF Len(bs) # size THEN Panicked
        ELSE Returned(<<Block(addr, "Pointer", NoSection,
                              get_symbol_by_addr(addr, section), read_bytes(bs), 0)>>)

\* Processor::parse_cstring
parse_cstring(addr, section) ==
    LET bs == bytes_by_addr(section, addr, USIZE_MAX)
        nuls == {i \in 1..Len(bs) : bs[i] = 0}
        end == IF nuls = {} THEN Len(bs) ELSE Min(nuls) - 1
    IN  Returned(<<Block(addr, "CString", NoSection, NoAddr, SubSeq(bs, 1, end), 0)>>)

\* Processor::parse_bytes: baddr climbs from addr to section.end, an
\* instruction or a decode error; the symbol test reads addr, not baddr.
parse_bytes(addr, section) ==
    LET stops == {b \in addr..section.end :
                     \/ b = section.end
                     \/ instruction_by_addr(b) # 0
                     \/ error_by_addr(b) # 0
                     \/ get_symbol_by_addr(addr, section) # NoAddr}
        baddr == Min(stops)
        bytes_len == baddr - addr
    IN  IF bytes_len > 0
        THEN Returned(<<Block(addr, "Bytes", NoSection, NoAddr,
                              bytes_by_addr(section, addr, bytes_len), 0)>>)
        ELSE Returned(<<>>)

\* Processor::parse_code
parse_code(addr, section) ==
    LET opt_inst == instruction_by_addr(addr)
        opt_err == error_by_addr(addr)
        sym == get_symbol_by_addr(addr, section)
        label == IF (opt_inst # 0 \/ opt_err # 0) /\ sym # NoAddr
                 THEN <<Block(addr, "Label", NoSection, sym, <<>>, 0)>>
                 ELSE <<>>
    IN  IF opt_inst # 0
        THEN Returned(label \o <<Block(addr, "Instruction", NoSection, NoAddr,
                                       bytes_by_addr(section, addr, opt_inst), 0)>>)
        ELSE IF opt_err # 0
        THEN Returned(label \o <<Block(addr, "Error", NoSection, NoAddr,
                                       bytes_by_addr(section, addr, opt_err), 0)>>)
        ELSE LET rest == parse_bytes(addr, section)
             IN  Returned(label \o rest.blocks)

\* The section markers of parse_blocks: match (section_start, section_end).
section_markers(addr) ==
    LET start == find_section_start(addr)
        end == find_section_end(addr)
    IN  IF start # NoSection /\ end # NoSection
        THEN <<SectionEnd(addr, end), SectionStart(addr, start)>>
             \o (IF bytes(sections[start]) = <<>>
                 THEN <<SectionEnd(addr, start)>> ELSE <<>>)
        ELSE IF start # NoSection THEN <<SectionStart(addr, start)>>
        ELSE IF end # NoSection THEN <<SectionEnd(addr, end)>>
        ELSE <<>>

\* The content dispatch of parse_blocks: match section.kind.
parse_content(addr, section) ==
    CASE section.kind = "Code" -> parse_code(addr, section)
      [] section.kind = "Ptr32" -> parse_pointer(addr, section, 4)
      [] section.kind = "Ptr64" -> parse_pointer(addr, section, 8)
      [] section.kind = "Got32" -> parse_got(addr, 4, section)
      [] section.kind = "Got64" -> parse_got(addr, 4, section)
      [] section.kind = "CString" -> parse_cstring(addr, section)
      [] section.kind = "Elf32Dyn" -> parse_datastructure(addr, section, ELF32DYN_SIZE)
      [] OTHER -> Returned(<<Block(addr, "Bytes", NoSection, NoAddr,
                                   bytes_by_addr(section, addr, BYTES_BLOCK_SIZE), 0)>>)

\* Processor::parse_blocks
parse_blocks(addr) ==
    LET found == section_by_addr(addr)
    IN  IF found = NoSection THEN Panicked
        ELSE LET section == sections[found]
                 blocks == section_markers(addr)
             IN  IF section.kind = "Unloaded" THEN Returned(<<>>)
                 ELSE IF addr = section.end THEN Returned(blocks)
                 ELSE LET content == parse_content(addr, section)
                      IN  IF content.panic THEN Panicked
                          ELSE Returned(blocks \o content.blocks)

\* ------------------------------------------------------------ rendering
\* Block::len: the length of the block when tokenized.
Block_len(b) ==
    CASE b.tag \in {"SectionStart", "SectionEnd", "Label"} -> 2
      [] b.tag \in {"Instruction", "Error", "Pointer", "Got"} -> 1
      [] b.tag = "CString" -> Len(b.bytes) + 1
      [] b.tag = "DataStructure" -> 2 + Len(b.bytes)
      [] b.tag = "Bytes" -> (Len(b.bytes) \div 32) + 1

\* A Token: a text (named by what it shows) over an address or some bytes.
Tok(text, addr, bs) == [text |-> text, addr |-> addr, bytes |-> bs]

\* TokenStream::push / push_owned
push(s, text, addr, bs) == Append(s, Tok(text, addr, bs))

\* Vec::pop: nothing happens to an empty Vec.
pop(s) == IF s = <<>> THEN s ELSE SubSeq(s, 1, Len(s) - 1)

\* bytes.chunks(32): the loop of the Bytes arm, from offset off on.
RECURSIVE tokenize_chunks(_, _, _)
tokenize_chunks(s, b, off) ==
    IF off >= Len(b.bytes) THEN s
    ELSE LET chunk == SubSeq(b.bytes, off + 1,
                             IF off + 32 > Len(b.bytes) THEN Len(b.bytes) ELSE off + 32)
         IN  tokenize_chunks(
                 push(push(push(s, "addr", b.addr + off, <<>>), "hex", NoAddr, chunk),
                      "\n", NoAddr, <<>>),
                 b, off + Len(chunk))

\* The for loop of the DataStructure arm; a field is one entry of b.bytes.
RECURSIVE tokenize_fields(_, _, _)
tokenize_fields(s, b, i) ==
    IF i > Len(b.bytes) THEN s
    ELSE tokenize_fields(
             push(push(push(push(push(push(push(push(s,
                 "addr", b.addr + i - 1, <<>>), "    ", NoAddr, <<>>),
                 "name", NoAddr, <<>>), ": ", NoAddr, <<>>), "tipe", NoAddr, <<>>),
                 " = ", NoAddr, <<>>), "value", NoAddr, <<b.bytes[i]>>),
                 "\n", NoAddr, <<>>),
             b, i + 1)

\* The eight tokens of a section marker.
tokenize_section(s, b, title) ==
    push(push(push(push(push(push(push(push(s,
        title, NoAddr, <<>>), "section.name", b.sec, <<>>), "{", NoAddr, <<>>),
        "section.kind", b.sec, <<>>), "} ", NoAddr, <<>>),
        "section.start", b.sec, <<>>), "-", NoAddr, <<>>),
        "section.end", b.sec, <<>>)

\* Block::tokenize: the stream as the call leaves it.
tokenize(b, s) ==
    CASE b.tag = "Label" ->
            push(push(push(s, "\n<", NoAddr, <<>>), "symbol.name", b.sym, <<>>),
                 ">", NoAddr, <<>>)
      [] b.tag = "SectionStart" -> tokenize_section(s, b, "section started")
      [] b.tag = "SectionEnd" -> tokenize_section(s, b, "section ended")
      [] b.tag = "Instruction" ->
            push(push(push(s, "addr", b.addr, <<>>), "hex", NoAddr, b.bytes),
                 "inst", b.addr, <<>>)
      [] b.tag = "Error" ->
            push(push(push(push(push(s, "addr", b.addr, <<>>), "hex", NoAddr, b.bytes),
                 "<", NoAddr, <<>>), "err", NoAddr, <<>>), ">", NoAddr, <<>>)
      [] b.tag = "CString" ->
            push(push(s, "addr", b.addr, <<>>), "escaped", NoAddr, b.bytes)
      [] b.tag = "Got" ->
            push(push(push(push(s, "addr", b.addr, <<>>), "<", NoAddr, <<>>),
                      IF b.sym = NoAddr THEN "unresolved" ELSE "symbol.name",
                      b.sym, <<>>),
                 ">", NoAddr, <<>>)
      [] b.tag = "DataStructure" ->
            push(push(tokenize_fields(
                     push(push(push(push(s, "addr", b.addr, <<>>),
                          "struct ", NoAddr, <<>>), "ident", NoAddr, <<>>),
                          " {\n", NoAddr, <<>>),
                     b, 1),
                 "addr", b.addr + Len(b.bytes) - 1, <<>>), "}", NoAddr, <<>>)
      [] b.tag = "Pointer" ->
            LET valued == push(push(s, "addr", b.addr, <<>>), "value", NoAddr, b.bytes)
            IN  IF b.sym = NoAddr THEN valued
                ELSE push(push(push(valued, " <", NoAddr, <<>>),
                               "symbol.name", b.sym, <<>>), ">", NoAddr, <<>>)
      [] b.tag = "Bytes" -> pop(tokenize_chunks(s, b, 0))

NoRendering ==
    /\ block = Block(NoAddr, "None", NoSection, NoAddr, <<>>, 0)
    /\ stream = <<>>
    /\ stream0 = <<>>
    /\ tokenized = FALSE

\* ------------------------------------------- gui/src/widgets/terminal.rs
\* Strings are sequences of one-byte characters, so a byte offset is a
\* character count.  command_position and cursor_position are 0-based as
\* in the source.  The prompt and reset_cursor fields only feed show().

\* str::escape_debug on the characters typed: a quote gains a backslash.
RECURSIVE escape_debug(_)
escape_debug(characters) ==
    IF characters = <<>> THEN <<>>
    ELSE (IF Head(characters) \in {"\"", "\\"}
          THEN <<"\\", Head(characters)>> ELSE <<Head(characters)>>)
         \o escape_debug(Tail(characters))

is_whitespace(chr) == chr = " "

\* Terminal::new over the lines read_command_history returned.
Terminal_new(cmds) ==
    [commands |-> Append(cmds, <<>>),
     command_position |-> Len(cmds),
     commands_unprocessed |-> 0,
     cursor_position |-> 0,
     suggestion |-> <<>>]

current_line(t) == t.commands[t.command_position + 1]

set_line(t, line) == [t EXCEPT !.commands[t.command_position + 1] = line]

clear_line(t) ==
    [set_line(t, <<>>) EXCEPT !.cursor_position = 0, !.suggestion = <<>>]

clear(t) ==
    [clear_line(t) EXCEPT !.commands = <<<<>>>>, !.command_position = 0]

\* `!self.cursor_position != 0`: the bitwise complement of a usize is 0
\* only for usize::MAX, which no line length reaches.
not_cursor_is_nonzero(t) == t.cursor_position # USIZE_MAX

RECURSIVE scroll_to_next_cmd_loop(_)
scroll_to_next_cmd_loop(t) ==
    IF t.command_position = Len(t.commands) - 1 THEN t
    ELSE LET moved == [t EXCEPT !.command_position = @ + 1]
             at == [moved EXCEPT !.cursor_position = Len(current_line(moved))]
         IN  IF not_cursor_is_nonzero(at) THEN at ELSE scroll_to_next_cmd_loop(at)

scroll_to_next_cmd(t) == [scroll_to_next_cmd_loop(t) EXCEPT !.suggestion = <<>>]

RECURSIVE scroll_to_prev_cmd_loop(_)
scroll_to_prev_cmd_loop(t) ==
    IF t.command_position = 0 THEN t
    ELSE LET moved == [t EXCEPT !.command_position = @ - 1]
             at == [moved EXCEPT !.cursor_position = Len(current_line(moved))]
         IN  IF not_cursor_is_nonzero(at) THEN at ELSE scroll_to_prev_cmd_loop(at)

scroll_to_prev_cmd(t) == [scroll_to_prev_cmd_loop(t) EXCEPT !.suggestion = <<>>]

move_to_end(t) == [t EXCEPT !.cursor_position = Len(current_line(t))]

autocomplete(t) ==
    [move_to_end(set_line(t, current_line(t) \o t.suggestion))
        EXCEPT !.suggestion = <<>>]

move_left(t) ==
    IF t.cursor_position # 0 THEN [t EXCEPT !.cursor_position = @ - 1] ELSE t

move_right(t) ==
    IF t.suggestion # <<>> THEN autocomplete(t)
    ELSE IF t.cursor_position < Len(current_line(t))
         THEN [t EXCEPT !.cursor_position = @ + 1]
         ELSE t

\* The start of the previous word, or the start of the line.
move_left_next_word(t) ==
    LET line == current_line(t)
        found == {i \in 1..t.cursor_position :
                    /\ is_whitespace(line[i])
                    /\ \E j \in (i + 1)..t.cursor_position : ~is_whitespace(line[j])}
    IN  [t EXCEPT !.cursor_position =
            IF found = {} THEN 0 ELSE CHOOSE i \in found : \A j \in found : j <= i]

\* The whitespace that ends the word under the cursor, or the end of the line.
move_right_next_word(t) ==
    LET line == current_line(t)
        found == {i \in (t.cursor_position + 1)..Len(line) :
                    /\ is_whitespace(line[i])
                    /\ \E j \in (t.cursor_position + 1)..(i - 1) : ~is_whitespace(line[j])}
    IN  [t EXCEPT !.cursor_position =
            IF found = {} THEN Len(line) ELSE Min(found) - 1]

\* The rest of the newest other command that starts with the current line.
term_suggest(t) ==
    LET cmd == current_line(t)
        others == {i \in 1..Len(t.commands) :
                     /\ i # t.command_position + 1
                     /\ IsPrefix(cmd, t.commands[i])}
    IN  IF cmd = <<>> \/ others = {} THEN [t EXCEPT !.suggestion = <<>>]
        ELSE LET idx == CHOOSE i \in others : \A j \in others : j <= i
             IN  [t EXCEPT !.suggestion =
                     SubSeq(t.commands[idx], Len(cmd) + 1, Len(t.commands[idx]))]

backspace(t) ==
    IF t.cursor_position = 0 THEN t
    ELSE LET left == move_left(t)
             line == current_line(left)
         IN  term_suggest(set_line(left,
                 SubSeq(line, 1, left.cursor_position)
                 \o SubSeq(line, left.cursor_position + 2, Len(line))))

append(t, received) ==
    LET characters == escape_debug(received)
        line == current_line(t)
    IN  term_suggest(
            [set_line(t, SubSeq(line, 1, t.cursor_position) \o characters
                         \o SubSeq(line, t.cursor_position + 1, Len(line)))
                EXCEPT !.cursor_position = @ + Len(characters)])

\* Command::parse is handed in by its outcome: the suggestions it returns.
cmd_suggest(t, suggestions) ==
    IF suggestions = <<>> THEN t
    ELSE term_suggest(move_to_end(set_line(t, Head(suggestions))))

commit(t) ==
    LET top == Len(t.commands)
        kept == IF t.command_position # top - 1
                THEN [t EXCEPT !.commands[top] = current_line(t)] ELSE t
    IN  [kept EXCEPT !.commands = Append(@, <<>>),
                     !.commands_unprocessed = @ + 1,
                     !.cursor_position = 0,
                     !.command_position = top,
                     !.suggestion = <<>>]

\* Terminal::take_commands: the slice of commands it returns, as its start
\* and length, or a panic when the start commands.len() - ncmds - 1 falls
\* below zero (an overflow panic, or, where the subtraction wraps, a slice
\* start past the end).
take_commands(t) ==
    LET ncmds == t.commands_unprocessed
        from == Len(t.commands) - ncmds - 1
    IN  IF from < 0 THEN [panicked |-> TRUE, from |-> 0, ncmds |-> 0]
        ELSE [panicked |-> FALSE, from |-> from, ncmds |-> ncmds]

NoTerminal ==
    /\ terminal = [commands |-> <<>>, command_position |-> 0,
                   commands_unprocessed |-> 0, cursor_position |-> 0,
                   suggestion |-> <<>>]
    /\ taken = [panicked |-> FALSE, from |-> 0, ncmds |-> 0]

\* ------------------------------------------------------- gui/src/lib.rs
\* UI::new: crossbeam_queue::ArrayQueue::new(100).
CAPACITY == 100

\* UIQueue::push: ArrayQueue::push hands the event back when the queue is
\* full, and `let _ =` drops it.
UIQueue_push(queue, event) ==
    IF Len(queue) < CAPACITY THEN Append(queue, event) ELSE queue

\* A worker thread: where it is and the event its parse ends in.
Worker(at, event) == [pc |-> at, event |-> event]

\* UI::offload_binary_processing without the check of the loading flag.
offload_binary_processing_unchecked(flag, threads) ==
    [loading |-> TRUE, workers |-> Append(threads, Worker("parse", "None"))]

\* UI::offload_binary_processing: the loading flag and the threads after it.
offload_binary_processing(flag, threads) ==
    IF flag THEN [loading |-> flag, workers |-> threads]
    ELSE [loading |-> TRUE, workers |-> Append(threads, Worker("parse", "None"))]

NoLoader ==
    /\ loading = FALSE
    /\ ui_queue = <<>>
    /\ workers = <<>>
    /\ started = FALSE

\* ================================================== symbols/src/lib.rs
\* ---------------------------------------------------------------- str
\* A str is the sequence of its characters.
GOT == <<"$", "g", "o", "t">>
PLT == <<"$", "p", "l", "t">>
PLTGOT == <<"$", "p", "l", "t", "g", "o", "t">>

Some(v) == [some |-> TRUE, value |-> v]
None == [some |-> FALSE, value |-> <<>>]

unwrap_or(opt, default) == IF opt.some THEN opt.value ELSE default

starts_with(s, prefix) ==
    Len(prefix) <= Len(s) /\ SubSeq(s, 1, Len(prefix)) = prefix

ends_with(s, suffix) ==
    Len(suffix) <= Len(s) /\ SubSeq(s, Len(s) - Len(suffix) + 1, Len(s)) = suffix

strip_suffix(s, suffix) ==
    IF ends_with(s, suffix) THEN Some(SubSeq(s, 1, Len(s) - Len(suffix))) ELSE None

\* ------------------------------------------------------------ demangler
\* The four mangling schemes, in the order parser() consults them.
Schemes == {"rust_legacy", "itanium", "rust", "msvc"}

\* TokenStream::simple: one token whose text is s.
TokenStream_simple(s) == [by |-> "simple", inner |-> s, tokens |-> <<s>>]

\* A scheme's parse: Some(stream) when the scheme accepts s.  The stream a
\* scheme builds is TokenStream::new(s) followed by the scheme's own tokens.
scheme_parse(scheme, s, acc) ==
    IF scheme \in acc
    THEN Some([by |-> scheme, inner |-> s, tokens |-> << <<scheme>>, s >>])
    ELSE None

\* The three strip_suffix lines of parser(): each works on the result of
\* the one before it.
parser_suffixes(s) ==
    LET s1 == unwrap_or(strip_suffix(s, GOT), s)
        s2 == unwrap_or(strip_suffix(s1, PLT), s1)
        s3 == unwrap_or(strip_suffix(s2, PLTGOT), s2)
    IN  s3

parser_schemes_itanium_first(s, acc) ==
    IF scheme_parse("itanium", s, acc).some
    THEN scheme_parse("itanium", s, acc).value
    ELSE IF scheme_parse("rust_legacy", s, acc).some
    THEN scheme_parse("rust_legacy", s, acc).value
    ELSE IF scheme_parse("rust", s, acc).some
    THEN scheme_parse("rust", s, acc).value
    ELSE IF scheme_parse("msvc", s, acc).some
    THEN scheme_parse("msvc", s, acc).value
    ELSE TokenStream_simple(s)

\* The cascade of parser(): the first scheme that accepts s wins, and when
\* none does the string the schemes were given comes back as one token.
parser_schemes(s, acc) ==
    IF scheme_parse("rust_legacy", s, acc).some
    THEN scheme_parse("rust_legacy", s, acc).value
    ELSE IF scheme_parse("itanium", s, acc).some
    THEN scheme_parse("itanium", s, acc).value
    ELSE IF scheme_parse("rust", s, acc).some
    THEN scheme_parse("rust", s, acc).value
    ELSE IF scheme_parse("msvc", s, acc).some
    THEN scheme_parse("msvc", s, acc).value
    ELSE TokenStream_simple(s)

parser(s, acc) == parser_schemes(parser_suffixes(s), acc)

\* --------------------------------------------------------- Symbol Index
\* Function::new: the name is the stream's inner string, intrisic starts false.
Function_new(name, module) ==
    [name |-> name.inner, module |-> module, intrinsic |-> FALSE]

\* Index::insert pushes at the back of the Vec.
insert(t, addr, function) ==
    Append(t, [addr |-> addr, name |-> function.name,
               module |-> function.module, intrinsic |-> function.intrinsic])

IsSortedByAddr(t) == \A i \in 1..(Len(t) - 1) : t[i].addr <= t[i + 1].addr

\* sort_unstable_by_key(|k| k.0): some arrangement of the same entries in
\* address order; which of several entries of one address comes first is
\* not determined.
RECURSIVE sort_unstable_by_key(_)
sort_unstable_by_key(t) ==
    IF t = <<>> THEN {<<>>}
    ELSE LET least == Min({t[i].addr : i \in DOMAIN t})
             firsts == {i \in DOMAIN t : t[i].addr = least}
         IN  UNION {{<<t[i]>> \o rest :
                        rest \in sort_unstable_by_key(
                                    SubSeq(t, 1, i - 1) \o SubSeq(t, i + 1, Len(t)))} :
                    i \in firsts}

\* dedup_by_key(|k| k.0): of every run of equal addresses the first stays.
dedup_by_key(t) ==
    SelectSeq([i \in 1..Len(t) |->
                  [e |-> t[i], keep |-> i = 1 \/ t[i].addr # t[i - 1].addr]],
              LAMBDA x : x.keep)

entries_of(kept) == [i \in 1..Len(kept) |-> kept[i].e]

ENTRY == <<"e", "n", "t", "r", "y">>

\* The symbols parse_debug collects: the native ones, then the public
\* function symbols of the PDB when there is one, at base_addr + rva.
debug_symbols(obj) ==
    obj.symbols \o
    (IF obj.pdb.some
     THEN [i \in 1..Len(obj.pdb.value) |->
              [addr |-> obj.base + obj.pdb.value[i].rva,
               name |-> obj.pdb.value[i].name]]
     ELSE <<>>)

RECURSIVE insert_symbols(_, _, _)
insert_symbols(t, symbols, acc) ==
    IF symbols = <<>> THEN t
    ELSE insert_symbols(insert(t, Head(symbols).addr,
                               Function_new(parser(Head(symbols).name, acc), <<>>)),
                        Tail(symbols), acc)

\* parse_debug: insert the symbols, sort, dedup, and then insert the entry
\* point.  The set holds every tree the call can leave behind.
parse_debug(t, obj, acc) ==
    {insert(entries_of(dedup_by_key(sorted)), obj.entry,
            Function_new(TokenStream_simple(ENTRY), <<>>)) :
        sorted \in sort_unstable_by_key(insert_symbols(t, debug_symbols(obj), acc))}

\* ---- ELF imports
\* obj.sections().find(...): the first section whose address range holds
\* r_offset (NoSection when there is none).
find_elf_section(obj, r_offset) ==
    LET hits == {i \in DOMAIN obj.elf_sections :
                    /\ obj.elf_sections[i].address <= r_offset
                    /\ r_offset < obj.elf_sections[i].address + obj.elf_sections[i].size}
    IN  IF hits = {} THEN NoSection ELSE Min(hits)

\* ObjectSection::data_range: the size bytes at address, when the section's
\* data holds all of them.
data_range(section, address, size) ==
    IF /\ address >= section.address
       /\ address - section.address + size <= Len(section.data)
    THEN Some(SubSeq(section.data, address - section.address + 1,
                     address - section.address + size))
    ELSE None

RECURSIVE from_be_bytes(_, _)
from_be_bytes(bs, acc) ==
    IF bs = <<>> THEN acc ELSE from_be_bytes(Tail(bs), acc * 256 + Head(bs))

\* Endian::read_u32_bytes / read_u64_bytes
read_uint(bs, little) == from_be_bytes(IF little THEN Reverse(bs) ELSE bs, 0)

saturating_sub(a, b) == IF a >= b THEN a - b ELSE 0

elf_phys_addr_wrapping(reloc, obj) ==
    IF reloc.target # "Symbol" THEN None
    ELSE IF find_elf_section(obj, reloc.r_offset) = NoSection THEN None
    ELSE IF ~reloc.sym_ok THEN None
    ELSE IF ~reloc.name_ok THEN None
    ELSE IF reloc.kind \in {"Absolute", "GLOB_DAT", "COPY"} THEN Some(reloc.r_offset)
    ELSE IF reloc.kind = "JUMP_SLOT"
    THEN LET width == IF obj.is_64 THEN 8 ELSE 4
             section == obj.elf_sections[find_elf_section(obj, reloc.r_offset)]
             bs == data_range(section, reloc.r_offset, width)
         IN  IF ~bs.some THEN None
             ELSE Some(read_uint(bs.value, obj.little) - 6)
    ELSE None

\* The body of the relocation loop of parse_elf_imports: the address the
\* import is inserted at, or None when the relocation is passed over.
elf_phys_addr(reloc, obj) ==
    IF reloc.target # "Symbol" THEN None
    ELSE IF find_elf_section(obj, reloc.r_offset) = NoSection THEN None
    ELSE IF ~reloc.sym_ok THEN None
    ELSE IF ~reloc.name_ok THEN None
    ELSE IF reloc.kind \in {"Absolute", "GLOB_DAT", "COPY"} THEN Some(reloc.r_offset)
    ELSE IF reloc.kind = "JUMP_SLOT"
    THEN LET width == IF obj.is_64 THEN 8 ELSE 4
             section == obj.elf_sections[find_elf_section(obj, reloc.r_offset)]
             bs == data_range(section, reloc.r_offset, width)
         IN  IF ~bs.some THEN None
             ELSE Some(saturating_sub(read_uint(bs.value, obj.little), 6))
    ELSE None

RECURSIVE elf_relocations(_, _, _, _)
elf_relocations(t, relocs, obj, acc) ==
    IF relocs = <<>> THEN t
    ELSE LET phys_addr == elf_phys_addr(Head(relocs), obj)
         IN  elf_relocations(
                 IF phys_addr.some
                 THEN insert(t, phys_addr.value,
                             Function_new(parser(Head(relocs).name, acc), <<>>))
                 ELSE t,
                 Tail(relocs), obj, acc)

\* parse_elf_imports: Ok(()) with nothing inserted when the file has no
\* dynamic relocations or no dynamic symbol table.
parse_elf_imports(t, obj, acc) ==
    IF ~obj.dynamic THEN [ok |-> TRUE, tree |-> t]
    ELSE [ok |-> TRUE, tree |-> elf_relocations(t, obj.relocations, obj, acc)]

\* ---- PE imports
DLL == <<".", "d", "l", "l">>

strip_prefix(s, prefix) ==
    IF starts_with(s, prefix)
    THEN Some(SubSeq(s, Len(prefix) + 1, Len(s))) ELSE None

\* The while loop over one descriptor's thunks; func_rva advances by the
\* thunk size for every slot, inserted or not.
RECURSIVE pe_thunks(_, _, _, _, _, _)
pe_thunks(t, slots, func_rva, desc, obj, acc) ==
    IF slots = <<>> THEN t
    ELSE LET func == Head(slots)
             size == IF obj.is_64 THEN 8 ELSE 4
             thunk == IF desc.first_thunk = 0
                      THEN desc.original_first_thunk ELSE desc.first_thunk
             phys_addr == IF thunk = desc.original_first_thunk
                          THEN func.hint + obj.base
                          ELSE func_rva + obj.base
             module == unwrap_or(strip_prefix(desc.name, DLL), desc.name)
         IN  pe_thunks(
                 IF func.kind = "named"
                 THEN insert(t, phys_addr,
                             Function_new(parser(func.name, acc), module))
                 ELSE t,
                 Tail(slots), func_rva + size, desc, obj, acc)

\* parse_pe_imports: the descriptor loop.  import_table.thunks(thunk)? ends
\* the whole call with an error when the thunk address lies outside the
\* import data, as address 0 does.
RECURSIVE parse_pe_imports(_, _, _, _)
parse_pe_imports(t, descs, obj, acc) ==
    IF descs = <<>> THEN [ok |-> TRUE, tree |-> t]
    ELSE LET desc == Head(descs)
             thunk == IF desc.first_thunk = 0
                      THEN desc.original_first_thunk ELSE desc.first_thunk
         IN  IF thunk = 0 THEN [ok |-> FALSE, tree |-> t]
             ELSE parse_pe_imports(
                      pe_thunks(t, desc.slots, desc.first_thunk, desc, obj, acc),
                      Tail(descs), obj, acc)

parse_macho_imports(t, obj) == [ok |-> TRUE, tree |-> t]

\* parse_imports: dispatch on the format, then sort; an error of the
\* format's parser returns before the sort.
parse_imports(t, obj, acc) ==
    LET parsed == CASE obj.format = "Pe" -> parse_pe_imports(t, obj.import_descs, obj, acc)
                    [] obj.format = "Elf" -> parse_elf_imports(t, obj, acc)
                    [] obj.format = "MachO" -> parse_macho_imports(t, obj)
                    [] OTHER -> [ok |-> TRUE, tree |-> t]
    IN  IF parsed.ok
        THEN {[ok |-> TRUE, tree |-> sorted] : sorted \in sort_unstable_by_key(parsed.tree)}
        ELSE {parsed}

\* ---- label
GCC_EXCEPT_TABLE == <<"G", "C", "C", "_", "e", "x", "c", "e", "p", "t",
                      "_", "t", "a", "b", "l", "e">>
STR_DOT == <<"s", "t", "r", ".">>
DOT_L == <<".", "L">>
ANON_DOT == <<"a", "n", "o", "n", ".">>

Intrinsic(symbol) == [symbol |-> [symbol EXCEPT !.intrinsic = TRUE], named |-> 0]

label_symbol_no_anon(symbol) ==
    IF symbol.name = <<>> THEN Intrinsic(symbol)
    ELSE IF starts_with(symbol.name, GCC_EXCEPT_TABLE) THEN Intrinsic(symbol)
    ELSE IF starts_with(symbol.name, STR_DOT) THEN Intrinsic(symbol)
    ELSE IF starts_with(symbol.name, DOT_L) THEN Intrinsic(symbol)
    ELSE [symbol |-> symbol, named |-> 1]

\* One turn of the loop of label(): the symbol as the turn leaves it and
\* what the turn adds to named_len.
label_symbol(symbol) ==
    IF symbol.name = <<>> THEN Intrinsic(symbol)
    ELSE IF starts_with(symbol.name, GCC_EXCEPT_TABLE) THEN Intrinsic(symbol)
    ELSE IF starts_with(symbol.name, STR_DOT) THEN Intrinsic(symbol)
    ELSE IF starts_with(symbol.name, DOT_L) THEN Intrinsic(symbol)
    ELSE IF starts_with(symbol.name, ANON_DOT) THEN Intrinsic(symbol)
    ELSE [symbol |-> symbol, named |-> 1]

RECURSIVE label_loop(_, _, _)
label_loop(t, i, n) ==
    IF i > Len(t) THEN [tree |-> t, named_len |-> n]
    ELSE label_loop([t EXCEPT ![i] = label_symbol(t[i]).symbol], i + 1,
                    n + label_symbol(t[i]).named)

\* label(): named_len is never reset, every run adds to it.
label(t, n) == label_loop(t, 1, n)

\* ---- get_by_addr
\* slice::binary_search_by over tree[left..right) (indices from 0): probe
\* the middle, go left on Greater, right on Less.
RECURSIVE binary_search_by(_, _, _, _)
binary_search_by(t, addr, left, right) ==
    IF left >= right THEN None
    ELSE LET mid == left + ((right - left) \div 2)
         IN  IF t[mid + 1].addr < addr THEN binary_search_by(t, addr, mid + 1, right)
             ELSE IF t[mid + 1].addr > addr THEN binary_search_by(t, addr, left, mid)
             ELSE Some(mid)

get_by_addr(t, addr) ==
    LET search == binary_search_by(t, addr, 0, Len(t))
    IN  IF search.some THEN Some(t[search.value + 1]) ELSE None

NoLookup == [addr |-> NoAddr, found |-> None]

NoIndex ==
    /\ object = [format |-> "None"]
    /\ tree = <<>>
    /\ named_len = 0
    /\ ipc = "none"
    /\ labelled = 0
    /\ lookup = NoLookup

NoDemangling ==
    /\ raw_name = <<>>
    /\ accepting = {}
    /\ demangled = [called |-> FALSE, handed |-> <<>>,
                    stream |-> TokenStream_simple(<<>>)]

\* ------------------------------------------------------------ the inputs
\* Section { kind, start, end, bytes }: bytes are end - start long, or empty
\* for a section with no file-resident data.
Section(kind, start, len, bs) ==
    [kind |-> kind, start |-> start, end |-> start + len, bytes |-> bs]

Fill(len) == [i \in 1..len |-> i % 256]

ByteStrings(len) == [1..len -> {0, 97}]

ExampleBytes == <<97, 98, 0, 0, 99, 100, 0>>

\* What the decoder holds at one address: nothing, an instruction or an error.
DecoderAnswers(maxw) ==
    {[inst |-> 0, err |-> 0]}
    \cup {[inst |-> w, err |-> 0] : w \in 1..maxw}
    \cup {[inst |-> 0, err |-> w] : w \in 1..maxw}

StrideLens(stride) == {q * stride + r : q \in 1..MaxStrides, r \in {0, 1}} \cup {1}

CodeAddrs(secs) ==
    UNION {IF secs[i].kind = "Code" /\ secs[i].bytes # <<>>
           THEN secs[i].start..(secs[i].end - 1) ELSE {} : i \in DOMAIN secs}

Analysis0(secs) ==
    /\ sections = secs
    /\ pc = "spawn"
    /\ next = 1
    /\ wpc = [i \in DOMAIN secs |-> "idle"]
    /\ waddr = [i \in DOMAIN secs |-> NoAddr]
    /\ wbounds = [i \in DOMAIN secs |-> <<>>]
    /\ boundaries = <<>>
    /\ query = NoAddr
    /\ result = Returned(<<>>)

\* One Code section, every decoder answer and every set of symbols in it.
InitCode ==
    \E len \in 1..MaxCodeLen, loaded \in BOOLEAN :
        LET sec == Section("Code", Base, len, IF loaded THEN Fill(len) ELSE <<>>)
            addrs == CodeAddrs(<<sec>>)
        IN  \E dec \in [addrs -> DecoderAnswers(MaxWidth)],
               idx \in SUBSET (Base..(Base + len - 1)) :
                /\ Analysis0(<<sec>>)
                /\ instructions = [a \in addrs |-> dec[a].inst]
                /\ errors = [a \in addrs |-> dec[a].err]
                /\ index = idx
                /\ endianness = "little"

\* One CString section, every byte string up to MaxStrLen and the example.
InitCString ==
    \E bs \in UNION {ByteStrings(len) : len \in 1..MaxStrLen} \cup {ExampleBytes},
       loaded \in BOOLEAN :
        /\ Analysis0(<<Section("CString", Base, Len(bs), IF loaded THEN bs ELSE <<>>)>>)
        /\ instructions = <<>>
        /\ errors = <<>>
        /\ index = {}
        /\ endianness = "little"

\* One section of a strided kind, of a length around whole strides.
InitStrided ==
    \E kind \in Kinds \ {"Code", "CString"} :
      \E len \in StrideLens(stride_of(kind)) \cup {0}, loaded \in BOOLEAN :
        \E idx \in (IF kind \in {"Ptr32", "Ptr64", "Got32", "Got64"}
                    THEN SUBSET {Base, Base + 4, Base + 8} ELSE {{}}),
           en \in (IF kind \in {"Ptr32", "Ptr64"} THEN {"little", "big"}
                   ELSE {"little"}) :
            /\ Analysis0(<<Section(kind, Base, len, IF loaded THEN Fill(len) ELSE <<>>)>>)
            /\ instructions = <<>>
            /\ errors = <<>>
            /\ index = idx
            /\ endianness = en

\* Two sections of any kinds, touching or one address apart.
PairShapes ==
    {[kind |-> k, len |-> l, loaded |-> ld] :
        k \in Kinds, l \in 0..MaxPairLen, ld \in BOOLEAN}

InitPair ==
    \E a \in PairShapes, b \in PairShapes, gap \in {0, 1} :
        LET s1 == Section(a.kind, Base, a.len, IF a.loaded THEN Fill(a.len) ELSE <<>>)
            s2 == Section(b.kind, s1.end + gap, b.len,
                          IF b.loaded THEN Fill(b.len) ELSE <<>>)
            secs == <<s1, s2>>
            addrs == CodeAddrs(secs)
        IN  /\ (a.len = 0 => a.loaded) /\ (b.len = 0 => b.loaded)
            /\ \E dec \in [addrs -> DecoderAnswers(1)], idx \in SUBSET {s2.start} :
                /\ Analysis0(secs)
                /\ instructions = [x \in addrs |-> dec[x].inst]
                /\ errors = [x \in addrs |-> dec[x].err]
                /\ index = idx
                /\ endianness = "little"

Init ==
    /\ InitCode \/ InitCString \/ InitStrided \/ InitPair
    /\ NoIndex
    /\ NoDemangling
    /\ NoRendering
    /\ NoTerminal
    /\ NoLoader

\* ------------------------------------------- compute_block_boundaries
NSections == Len(sections)

\* s.spawn(|| self.compute_section_boundaries(section)), one per section.
Spawn ==
    /\ pc = "spawn"
    /\ wpc' = [wpc EXCEPT ![next] = "ready"]
    /\ IF next = NSections THEN pc' = "join" /\ next' = 1
       ELSE pc' = pc /\ next' = next + 1
    /\ UNCHANGED <<inputs, waddr, wbounds, boundaries, query, result>>

\* A worker runs compute_section_boundaries; a Code section with bytes goes
\* on in compute_code_boundaries.
WorkerStart(i) ==
    /\ wpc[i] = "ready"
    /\ LET section == sections[i]
           head == section_boundaries_head(section)
       IN  IF head.done
           THEN /\ wbounds' = [wbounds EXCEPT ![i] = head.boundaries]
                /\ wpc' = [wpc EXCEPT ![i] = "done"]
                /\ waddr' = waddr
           ELSE IF section.kind = "Code"
           THEN /\ wbounds' = [wbounds EXCEPT ![i] = head.boundaries]
                /\ wpc' = [wpc EXCEPT ![i] = "scan"]
                /\ waddr' = [waddr EXCEPT ![i] = section.start]
           ELSE /\ wbounds' = [wbounds EXCEPT ![i] =
                                  head.boundaries \o section_boundaries_match(section)]
                /\ wpc' = [wpc EXCEPT ![i] = "done"]
                /\ waddr' = waddr
    /\ UNCHANGED <<inputs, pc, next, boundaries, query, result>>

\* One pass of the loop of compute_code_boundaries; on addr == section.end the
\* loop breaks and compute_section_boundaries pushes section.end and returns.
CodeStep(i) ==
    /\ wpc[i] = "scan"
    /\ LET section == sections[i]
           it == code_iteration(section, waddr[i])
       IN  IF waddr[i] = section.end
           THEN /\ wbounds' = [wbounds EXCEPT ![i] = @ \o <<section.end>>]
                /\ wpc' = [wpc EXCEPT ![i] = "done"]
                /\ waddr' = waddr
           ELSE /\ wbounds' = [wbounds EXCEPT ![i] = @ \o it.pushed]
                /\ wpc' = [wpc EXCEPT ![i] = IF it.overflow THEN "overflow" ELSE "scan"]
                /\ waddr' = [waddr EXCEPT ![i] = it.addr]
    /\ UNCHANGED <<inputs, pc, next, boundaries, query, result>>

\* boundaries.extend(thread.join().unwrap()), in spawn order.
Join ==
    /\ pc = "join"
    /\ wpc[next] = "done"
    /\ boundaries' = boundaries \o wbounds[next]
    /\ wpc' = [wpc EXCEPT ![next] = "joined"]
    /\ IF next = NSections THEN pc' = "merge" /\ next' = next
       ELSE pc' = pc /\ next' = next + 1
    /\ UNCHANGED <<inputs, waddr, wbounds, query, result>>

\* boundaries.sort_unstable(); boundaries.dedup(); boundaries
Merge ==
    /\ pc = "merge"
    /\ boundaries' = sort_dedup(boundaries)
    /\ pc' = "done"
    /\ UNCHANGED <<inputs, next, wpc, waddr, wbounds, query, result>>

\* The addresses parse_blocks is asked about: every boundary, every section
\* start and end, their neighbours, and address 0.
ProbeAddrs ==
    LET marks == Range(boundaries)
                 \cup {sections[i].start : i \in DOMAIN sections}
                 \cup {sections[i].end : i \in DOMAIN sections}
    IN  {0} \cup marks \cup {a + 1 : a \in marks} \cup {a - 1 : a \in marks}

ParseBlocks(addr) ==
    /\ pc = "done"
    /\ query' = addr
    /\ result' = parse_blocks(addr)
    /\ UNCHANGED <<inputs, pc, next, wpc, waddr, wbounds, boundaries>>

Next ==
    \/ Spawn /\ UNCHANGED <<symvars, demvars, newvars>>
    \/ \E i \in DOMAIN sections : WorkerStart(i) /\ UNCHANGED <<symvars, demvars, newvars>>
    \/ \E i \in DOMAIN sections : CodeStep(i) /\ UNCHANGED <<symvars, demvars, newvars>>
    \/ Join /\ UNCHANGED <<symvars, demvars, newvars>>
    \/ Merge /\ UNCHANGED <<symvars, demvars, newvars>>
    \/ \E addr \in ProbeAddrs : ParseBlocks(addr) /\ UNCHANGED <<symvars, demvars, newvars>>

Spec == Init /\ [][Next]_vars

\* ============================================================ demangler
NoAnalysis ==
    /\ Analysis0(<<>>)
    /\ instructions = <<>>
    /\ errors = <<>>
    /\ index = {}
    /\ endianness = "little"

\* Raw names: up to MaxParts pieces, each a plain letter or one of the
\* three linker suffixes.
NameParts == {<<"f">>, GOT, PLT, PLTGOT}

RECURSIVE RawNames(_)
RawNames(n) ==
    IF n = 0 THEN {<<>>}
    ELSE RawNames(n - 1) \cup {s \o p : s \in RawNames(n - 1), p \in NameParts}

DemanglerInit ==
    /\ raw_name \in RawNames(MaxParts)
    /\ accepting \in SUBSET Schemes
    /\ demangled = [called |-> FALSE, handed |-> <<>>,
                    stream |-> TokenStream_simple(<<>>)]
    /\ NoIndex
    /\ NoAnalysis
    /\ NoRendering
    /\ NoTerminal
    /\ NoLoader

\* One call of parser(raw_name).  `handed` records the string the schemes
\* were given, `stream` the TokenStream that came back.
Demangle ==
    /\ ~demangled.called
    /\ demangled' = [called |-> TRUE, handed |-> parser_suffixes(raw_name),
                     stream |-> parser(raw_name, accepting)]
    /\ UNCHANGED <<raw_name, accepting, symvars, blockvars, newvars>>

DemanglerNext == Demangle

SpecDemangler == DemanglerInit /\ [][DemanglerNext]_vars

\* ============================================================ rendering
\* Blocks of every variant.  Bytes blocks hold 0..BYTES_BLOCK_SIZE bytes:
\* the block of zero bytes is what the fallback arm of parse_blocks yields
\* at the start of a section with empty bytes.
RenderBlocks ==
    {Block(Base, "Bytes", NoSection, NoAddr,
           bytes_by_addr(Section("Unknown", Base, n, Fill(n)), Base, BYTES_BLOCK_SIZE), 0) :
        n \in 0..BYTES_BLOCK_SIZE}
    \cup {Block(Base, "CString", NoSection, NoAddr, SubSeq(ExampleBytes, 1, n), 0) :
            n \in 0..2}
    \cup {Block(Base, tag, NoSection, sym, Fill(n), 0) :
            tag \in {"Pointer", "Instruction", "Error", "DataStructure"},
            sym \in {NoAddr}, n \in {4, 8}}
    \cup {Block(Base, "Pointer", NoSection, Base, Fill(4), 0)}
    \cup {Block(Base, "Got", NoSection, sym, <<>>, 4) : sym \in {NoAddr, Base}}
    \cup {Block(Base, "Label", NoSection, Base, <<>>, 0),
          SectionStart(Base, 1), SectionEnd(Base, 1)}

\* What an earlier block left in the stream.
EarlierStreams ==
    {<<>>, tokenize(SectionStart(Base, 1), <<>>),
     tokenize(Block(Base, "Label", NoSection, Base, <<>>, 0), <<>>)}

RenderInit ==
    /\ block \in RenderBlocks
    /\ stream0 \in EarlierStreams
    /\ stream = stream0
    /\ tokenized = FALSE
    /\ NoIndex
    /\ NoDemangling
    /\ NoAnalysis
    /\ NoTerminal
    /\ NoLoader

Tokenize ==
    /\ ~tokenized
    /\ stream' = tokenize(block, stream)
    /\ tokenized' = TRUE
    /\ UNCHANGED <<block, stream0, blockvars, symvars, demvars, termvars, loadvars>>

RenderNext == Tokenize

SpecRender == RenderInit /\ [][RenderNext]_vars

\* ============================================================= terminal
MaxLineLen == 2
MaxCommands == 3
MaxUnprocessed == 2

\* Terminal::new: the history file holds any lines, empty ones included.
TerminalInit ==
    /\ \E cmds \in UNION {[1..n -> {<<>>, <<"a">>}] : n \in 0..(MaxCommands - 1)} :
           terminal = Terminal_new(cmds)
    /\ taken = [panicked |-> FALSE, from |-> 0, ncmds |-> 0]
    /\ NoIndex
    /\ NoDemangling
    /\ NoAnalysis
    /\ NoRendering
    /\ NoLoader

\* What an event of record_input leaves alone.
untyped == <<taken, blockvars, symvars, demvars, rendervars, loadvars>>

\* record_input, one action per event it handles.
Text ==
    \E received \in {<<"a">>, <<" ">>} :
        /\ ~taken.panicked
        /\ Len(current_line(terminal)) + Len(escape_debug(received)) <= MaxLineLen
        /\ terminal' = append(terminal, received)
        /\ UNCHANGED untyped

Tab ==
    \E suggestions \in {<<>>, <<<<"a", " ">>>>} :
        /\ ~taken.panicked
        /\ terminal' = cmd_suggest(terminal, suggestions)
        /\ UNCHANGED untyped

Backspace ==
    /\ ~taken.panicked
    /\ terminal' = backspace(terminal)
    /\ UNCHANGED untyped

Enter ==
    /\ ~taken.panicked
    /\ Len(terminal.commands) < MaxCommands
    /\ terminal.commands_unprocessed < MaxUnprocessed
    /\ terminal' = commit(terminal)
    /\ UNCHANGED untyped

Escape ==
    /\ ~taken.panicked
    /\ terminal' = clear_line(terminal)
    /\ UNCHANGED untyped

CtrlA ==
    /\ ~taken.panicked
    /\ terminal' = [terminal EXCEPT !.cursor_position = 0]
    /\ UNCHANGED untyped

CtrlE ==
    /\ ~taken.panicked
    /\ terminal' = move_to_end(terminal)
    /\ UNCHANGED untyped

CtrlL ==
    /\ ~taken.panicked
    /\ terminal' = clear(terminal)
    /\ UNCHANGED untyped

CtrlArrowLeft ==
    /\ ~taken.panicked
    /\ terminal' = move_left_next_word(terminal)
    /\ UNCHANGED untyped

CtrlArrowRight ==
    /\ ~taken.panicked
    /\ terminal' = move_right_next_word(terminal)
    /\ UNCHANGED untyped

ArrowDown ==
    /\ ~taken.panicked
    /\ terminal' = scroll_to_next_cmd(terminal)
    /\ UNCHANGED untyped

ArrowUp ==
    /\ ~taken.panicked
    /\ terminal' = scroll_to_prev_cmd(terminal)
    /\ UNCHANGED untyped

ArrowLeft ==
    /\ ~taken.panicked
    /\ terminal' = move_left(terminal)
    /\ UNCHANGED untyped

ArrowRight ==
    /\ ~taken.panicked
    /\ terminal' = move_right(terminal)
    /\ UNCHANGED untyped

\* UI::run: the commands of this frame are taken after record_input.
TakeCommands ==
    /\ ~taken.panicked
    /\ taken' = take_commands(terminal)
    /\ terminal' = [terminal EXCEPT !.commands_unprocessed = 0]
    /\ UNCHANGED <<blockvars, symvars, demvars, rendervars, loadvars>>

TerminalNext ==
    \/ Text
    \/ Tab
    \/ Backspace
    \/ Enter
    \/ Escape
    \/ CtrlA
    \/ CtrlE
    \/ CtrlL
    \/ CtrlArrowLeft
    \/ CtrlArrowRight
    \/ ArrowDown
    \/ ArrowUp
    \/ ArrowLeft
    \/ ArrowRight
    \/ TakeCommands

SpecTerminal == TerminalInit /\ [][TerminalNext]_vars

\* =============================================================== loader
MaxWorkers == 3
MaxOthers == 2
MaxRequests == 2

\* UI::new: an empty queue; Panels start with loading false.
LoaderInit ==
    /\ NoLoader
    /\ NoIndex
    /\ NoDemangling
    /\ NoAnalysis
    /\ NoRendering
    /\ NoTerminal

unloaded == <<blockvars, symvars, demvars, rendervars, termvars>>

CountOf(queue, event) == Cardinality({i \in DOMAIN queue : queue[i] = event})

\* A call of offload_binary_processing by the UI thread.
Offload ==
    /\ loading \/ Len(workers) < MaxWorkers
    /\ loading' = offload_binary_processing(loading, workers).loading
    /\ workers' = offload_binary_processing(loading, workers).workers

\* UI::process_args, before UI::run: a path on the command line or none.
ProcessArgs ==
    /\ ~started
    /\ started' = TRUE
    /\ \/ Offload
       \/ UNCHANGED <<loading, workers>>
    /\ UNCHANGED <<ui_queue, unloaded>>

\* UI::run, WindowEvent::DroppedFile.
DroppedFile ==
    /\ started
    /\ Offload
    /\ UNCHANGED <<ui_queue, started, unloaded>>

\* One turn of the loop of handle_ui_events: pop an event and handle it.
HandleEvent ==
    /\ started
    /\ ui_queue # <<>>
    /\ ui_queue' = Tail(ui_queue)
    /\ CASE Head(ui_queue) = "BinaryRequested" -> Offload
         [] Head(ui_queue) \in {"BinaryFailed", "BinaryLoaded"} ->
                loading' = FALSE /\ UNCHANGED workers
         [] OTHER -> UNCHANGED <<loading, workers>>
    /\ UNCHANGED <<started, unloaded>>

\* The worker: Disassembly::parse returns Ok or Err.
WorkerParse ==
    \E i \in DOMAIN workers, event \in {"BinaryLoaded", "BinaryFailed"} :
        /\ workers[i].pc = "parse"
        /\ workers' = [workers EXCEPT ![i] = Worker("push", event)]
        /\ UNCHANGED <<loading, ui_queue, started, unloaded>>

\* The worker: self.inner.push(event) of UIQueue::push.
WorkerPush ==
    \E i \in DOMAIN workers :
        /\ workers[i].pc = "push"
        /\ ui_queue' = UIQueue_push(ui_queue, workers[i].event)
        /\ workers' = [workers EXCEPT ![i] = Worker("redraw", workers[i].event)]
        /\ UNCHANGED <<loading, started, unloaded>>

\* The worker: self.window.request_redraw() of UIQueue::push, then the
\* closure returns and the thread is gone.
WorkerExit ==
    \E i \in DOMAIN workers :
        /\ workers[i].pc = "redraw"
        /\ workers' = SubSeq(workers, 1, i - 1) \o SubSeq(workers, i + 1, Len(workers))
        /\ UNCHANGED <<loading, ui_queue, started, unloaded>>

\* Another holder of the queue (the panels, the debugger thread) pushes.
PushRequested ==
    /\ started
    /\ CountOf(ui_queue, "BinaryRequested") < MaxRequests
    /\ ui_queue' = UIQueue_push(ui_queue, "BinaryRequested")
    /\ UNCHANGED <<loading, workers, started, unloaded>>

PushOther ==
    /\ started
    /\ CountOf(ui_queue, "DebuggerFinished") < MaxOthers
    /\ ui_queue' = UIQueue_push(ui_queue, "DebuggerFinished")
    /\ UNCHANGED <<loading, workers, started, unloaded>>

LoaderNext ==
    \/ ProcessArgs
    \/ DroppedFile
    \/ HandleEvent
    \/ WorkerParse
    \/ WorkerPush
    \/ WorkerExit
    \/ PushRequested
    \/ PushOther

SpecLoader == LoaderInit /\ [][LoaderNext]_vars

\* Any number of other events: the queue's capacity is the only limit.
PushOtherAnyNumber ==
    /\ started
    /\ ui_queue' = UIQueue_push(ui_queue, "DebuggerFinished")
    /\ UNCHANGED <<loading, workers, started, unloaded>>

QueuedLoaderNext ==
    \/ ProcessArgs
    \/ DroppedFile
    \/ HandleEvent
    \/ WorkerParse
    \/ WorkerPush
    \/ WorkerExit
    \/ PushOtherAnyNumber

\* The UI loop keeps calling handle_ui_events and the worker threads run
\* to their end; nothing obliges anyone to push or to drop a file.
SpecLoaderFair ==
    /\ LoaderInit
    /\ [][QueuedLoaderNext]_vars
    /\ WF_vars(HandleEvent)
    /\ WF_vars(WorkerParse)
    /\ WF_vars(WorkerPush)
    /\ WF_vars(WorkerExit)

\* ========================================================= Symbol Index
Digits == <<"0", "1", "2", "3", "4", "5", "6", "7", "8", "9">>

SymName(i) == <<"s", Digits[i + 1]>>
RelocName(i) == <<"r", Digits[i + 1]>>
ThunkName(d, k) == <<"d", Digits[d + 1], "t", Digits[k + 1]>>

Object(format, is_64, little, base, entry, symbols, pdb) ==
    [format |-> format, is_64 |-> is_64, little |-> little, base |-> base,
     entry |-> entry, symbols |-> symbols, pdb |-> pdb,
     dynamic |-> FALSE, relocations |-> <<>>, elf_sections |-> <<>>,
     import_descs |-> <<>>]

Reloc(i, r_offset, kind, target, sym_ok, name_ok) ==
    [r_offset |-> r_offset, kind |-> kind, target |-> target,
     sym_ok |-> sym_ok, name_ok |-> name_ok, name |-> RelocName(i)]

ElfSection(address, size, data) ==
    [address |-> address, size |-> size, data |-> data]

Index0(obj) ==
    /\ object = obj
    /\ tree = <<>>
    /\ named_len = 0
    /\ ipc = "new"
    /\ labelled = 0
    /\ lookup = NoLookup
    /\ NoDemangling
    /\ NoAnalysis
    /\ NoRendering
    /\ NoTerminal
    /\ NoLoader

\* Native symbols at any addresses, an optional PDB, any entry point and at
\* most one import that lands on one of the same addresses.
SymAddrs == 1..(MaxSymbols + 1)

InitDebug ==
    \E addrs \in UNION {[1..n -> SymAddrs] : n \in 0..MaxSymbols},
       pdb \in {None, Some(<<>>)}
               \cup {Some(<<[rva |-> r, name |-> <<"p">>]>>) : r \in 0..1},
       entry \in SymAddrs,
       imports \in {<<>>} \cup {<<Reloc(1, a, "Absolute", "Symbol", TRUE, TRUE)>> :
                                  a \in SymAddrs} :
        Index0([Object("Elf", TRUE, TRUE, 1, entry,
                       [i \in DOMAIN addrs |-> [addr |-> addrs[i], name |-> SymName(i)]],
                       pdb)
                EXCEPT !.dynamic = TRUE, !.relocations = imports,
                       !.elf_sections = <<ElfSection(1, MaxSymbols + 1, <<>>)>>])

\* An ELF image with one 8-byte .got.plt section and every relocation over it.
RECURSIVE to_le_bytes(_, _)
to_le_bytes(v, width) ==
    IF width = 0 THEN <<>> ELSE <<v % 256>> \o to_le_bytes(v \div 256, width - 1)

SlotBytes(v, is_64, little) ==
    LET le == IF is_64 THEN to_le_bytes(v, 8)
              ELSE to_le_bytes(v, 4) \o to_le_bytes(v, 4)
    IN  IF little THEN le
        ELSE IF is_64 THEN Reverse(le)
        ELSE Reverse(to_le_bytes(v, 4)) \o Reverse(to_le_bytes(v, 4))

RelocShapes ==
    {[kind |-> k, target |-> "Symbol", sym_ok |-> TRUE, name_ok |-> TRUE] :
        k \in {"Absolute", "GLOB_DAT", "COPY", "JUMP_SLOT", "RELATIVE"}}
    \cup {[kind |-> k, target |-> t.target, sym_ok |-> t.sym_ok, name_ok |-> t.name_ok] :
            k \in {"Absolute", "JUMP_SLOT"},
            t \in {[target |-> "Section", sym_ok |-> TRUE, name_ok |-> TRUE],
                   [target |-> "Symbol", sym_ok |-> FALSE, name_ok |-> TRUE],
                   [target |-> "Symbol", sym_ok |-> TRUE, name_ok |-> FALSE]}}

InitElf ==
    \E is_64 \in BOOLEAN, little \in BOOLEAN :
    \E data \in {<<>>} \cup {SlotBytes(v, is_64, little) : v \in {0, 3, 6, 4198406}},
       shapes \in UNION {[1..n -> RelocShapes \X {16, 20, 24}] : n \in 0..MaxRelocs},
       dynamic \in BOOLEAN :
        /\ dynamic \/ shapes = <<>>
        /\ Index0([Object("Elf", is_64, little, 0, 8, <<>>, None)
                   EXCEPT !.dynamic = dynamic,
                          !.relocations =
                              [i \in DOMAIN shapes |->
                                  Reloc(i, shapes[i][2], shapes[i][1].kind,
                                        shapes[i][1].target, shapes[i][1].sym_ok,
                                        shapes[i][1].name_ok)],
                          !.elf_sections = <<ElfSection(16, 8, data)>>])

\* A PE image: one import descriptor with every pair of thunk pointers and
\* every thunk array up to MaxThunks, alone or followed by a second one.
ThunkShapes ==
    {[kind |-> k, hint |-> 0] : k \in {"ordinal", "no_hint_name", "bad_utf8"}}
    \cup {[kind |-> "named", hint |-> h] : h \in {5, 7}}

Descriptor(d, first_thunk, original_first_thunk, shapes) ==
    [name |-> <<"k">> \o DLL, first_thunk |-> first_thunk,
     original_first_thunk |-> original_first_thunk,
     slots |-> [k \in DOMAIN shapes |->
                   [kind |-> shapes[k].kind, hint |-> shapes[k].hint,
                    name |-> ThunkName(d, k - 1)]]]

InitPe ==
    \E is_64 \in BOOLEAN, base \in {0, 4194304},
       first_thunk \in {0, 12368}, original_first_thunk \in {0, 12368, 8272},
       shapes \in UNION {[1..n -> ThunkShapes] : n \in 0..MaxThunks},
       count \in 0..2 :
        LET d0 == Descriptor(0, first_thunk, original_first_thunk, shapes)
            d1 == Descriptor(1, 12416, 8320, <<[kind |-> "named", hint |-> 9]>>)
        IN  Index0([Object("Pe", is_64, TRUE, base, base + 4096, <<>>, None)
                    EXCEPT !.import_descs = SubSeq(<<d0, d1>>, 1, count)])

\* Symbols under real and synthetic names, one address each, and the index
\* of ten symbols of which three are synthetic.
LabelNames ==
    {<<>>, <<"f">>, <<"s", "t", "r">>, <<"L">>, <<"a", "n", "o", "n">>,
     GCC_EXCEPT_TABLE \o <<"0">>, STR_DOT \o <<"0">>, DOT_L \o <<"0">>,
     ANON_DOT \o <<"0">>}

ExampleNames ==
    <<<<"f">>, <<>>, <<"g">>, STR_DOT \o <<"1">>, <<"h">>, <<"m">>,
      DOT_L \o <<"B">>, <<"n">>, <<"q">>>>

InitLabel ==
    \E names \in UNION {[1..n -> LabelNames] : n \in 0..MaxSymbols} \cup {ExampleNames} :
        Index0(Object("MachO", TRUE, TRUE, 0, 1,
                      [i \in DOMAIN names |-> [addr |-> i + 1, name |-> names[i]]],
                      None))

IndexInit == InitDebug \/ InitElf \/ InitPe \/ InitLabel

ParseDebug ==
    /\ ipc = "new"
    /\ tree' \in parse_debug(tree, object, accepting)
    /\ ipc' = "debug"
    /\ lookup' = NoLookup
    /\ UNCHANGED <<object, named_len, labelled, demvars, blockvars, newvars>>

ParseImports ==
    /\ ipc = "debug"
    /\ \E r \in parse_imports(tree, object, accepting) :
        /\ tree' = r.tree
        /\ ipc' = IF r.ok THEN "imports" ELSE "failed"
    /\ lookup' = NoLookup
    /\ UNCHANGED <<object, named_len, labelled, demvars, blockvars, newvars>>

Label ==
    /\ ipc = "imports"
    /\ labelled < MaxLabelRuns
    /\ tree' = label(tree, named_len).tree
    /\ named_len' = label(tree, named_len).named_len
    /\ labelled' = labelled + 1
    /\ lookup' = NoLookup
    /\ UNCHANGED <<object, ipc, demvars, blockvars, newvars>>

\* The addresses parse_debug was given, and one that it was not.
DebugAddrs ==
    {debug_symbols(object)[i].addr : i \in DOMAIN debug_symbols(object)}
    \cup {object.entry}

GetByAddr(addr) ==
    /\ ipc \in {"debug", "imports"}
    /\ labelled = 0
    /\ lookup' = [addr |-> addr, found |-> get_by_addr(tree, addr)]
    /\ UNCHANGED <<object, tree, named_len, ipc, labelled, demvars, blockvars, newvars>>

IndexNext ==
    \/ ParseDebug
    \/ ParseImports
    \/ Label
    \/ \E addr \in DebugAddrs \cup {0} : GetByAddr(addr)

SpecIndex == IndexInit /\ [][IndexNext]_vars

\* ================================================================ claims
WorkerReturned(i) == wpc[i] \in {"done", "joined"}

\* The boundaries computed for section i, as they enter the final sequence.
BoundariesOf(i) == sort_dedup(wbounds[i])

LoadedCode(i) == sections[i].kind = "Code" /\ bytes(sections[i]) # <<>>

\* C1 (as claimed): for any Code section with non-empty bytes the boundaries
\* computed for it are strictly increasing, begin at section.start, finish at
\* section.end and contain every address in [start, end) at which the Symbol
\* Index holds a function, whatever the decoder reports.
C1_CodeBoundariesHoldEverySymbol ==
    \A i \in DOMAIN sections :
        (LoadedCode(i) /\ WorkerReturned(i)) =>
            LET b == BoundariesOf(i)
            IN  /\ IsStrictlyIncreasing(b)
                /\ b[1] = sections[i].start
                /\ b[Len(b)] = sections[i].end
                /\ \A a \in index :
                      (sections[i].start <= a /\ a < sections[i].end)
                          => a \in Range(b)

\* C2 (as claimed): for every decoder answer the scan of
\* compute_code_boundaries never steps past section.end and never runs away:
\* its current address stays at or below section.end until it ends there.
C2_ScanNeverPassesEnd ==
    \A i \in DOMAIN sections :
        /\ wpc[i] # "overflow"
        /\ wpc[i] = "scan" => waddr[i] <= sections[i].end

\* C3 (as claimed): for every section of the catalog, of any kind, its start
\* and its end are elements of the sequence compute_block_boundaries returns.
C3_EverySectionStartAndEnd ==
    pc = "done" =>
        \A i \in DOMAIN sections :
            {sections[i].start, sections[i].end} \subseteq Range(boundaries)

\* C3 (amended): for every section whose kind is neither Unloaded nor Debug,
\* with empty or non-empty bytes, its start and its end are elements of the
\* sequence compute_block_boundaries returns.
C3_LoadedSectionStartAndEnd ==
    pc = "done" =>
        \A i \in DOMAIN sections :
            sections[i].kind \notin {"Unloaded", "Debug"} =>
                {sections[i].start, sections[i].end} \subseteq Range(boundaries)

C3_Witness ==
    /\ pc = "done"
    /\ NSections = 2
    /\ sections[1].kind = "Debug"
    /\ sections[2].kind = "Got32"
    /\ bytes(sections[2]) # <<>>
    /\ sections[1].end < sections[2].start
    /\ boundaries = <<sections[2].start, sections[2].end>>

\* C4 (as claimed): for any section whose bytes are empty, whatever its kind,
\* the boundaries computed for it are exactly start and end.
C4_EmptyBytesAnyKind ==
    \A i \in DOMAIN sections :
        (WorkerReturned(i) /\ bytes(sections[i]) = <<>>) =>
            Range(wbounds[i]) = {sections[i].start, sections[i].end}

\* C4 (amended): for any section whose bytes are empty and whose kind is
\* neither Unloaded nor Debug, the boundaries computed for it are exactly the
\* two addresses start and end and nothing else.
C4_EmptyBytesStartEndOnly ==
    \A i \in DOMAIN sections :
        (/\ WorkerReturned(i)
         /\ bytes(sections[i]) = <<>>
         /\ sections[i].kind \notin {"Unloaded", "Debug"}) =>
            wbounds[i] = <<sections[i].start, sections[i].end>>

C4_Witness ==
    \E i \in DOMAIN sections :
        /\ WorkerReturned(i)
        /\ bytes(sections[i]) = <<>>
        /\ sections[i].kind = "Ptr32"
        /\ sections[i].end - sections[i].start > PTR32_SIZE
        /\ wbounds[i] = <<sections[i].start, sections[i].end>>

\* C5: compute_block_boundaries merges only after every worker has been
\* joined; its result is strictly increasing and is the set union of the
\* per-section results; it is what the sections give when computed one after
\* the other, whatever the interleaving; and a step that changes one worker's
\* state leaves every other worker's state and the shared inputs as they were.
C5_MergedState ==
    /\ pc \in {"merge", "done"} => \A i \in DOMAIN sections : wpc[i] = "joined"
    /\ pc = "done" =>
        /\ IsStrictlyIncreasing(boundaries)
        /\ Range(boundaries) = UNION {Range(wbounds[i]) : i \in DOMAIN sections}
        /\ Range(boundaries) =
             UNION {Range(compute_section_boundaries(sections[i]).boundaries) :
                       i \in DOMAIN sections}

C5_WorkerFrame ==
    /\ inputs' = inputs
    /\ \A i, j \in DOMAIN sections :
          (i # j /\ <<wpc[i], waddr[i], wbounds[i]>>' # <<wpc[i], waddr[i], wbounds[i]>>)
              => <<wpc[j], waddr[j], wbounds[j]>>' = <<wpc[j], waddr[j], wbounds[j]>>

C5_FanOutFanIn == []C5_MergedState /\ [][C5_WorkerFrame]_vars

C5_Witness ==
    /\ pc = "done"
    /\ NSections = 2
    /\ sections[1].kind = "Code"
    /\ sections[2].kind = "CString"
    /\ sections[1].end = sections[2].start
    /\ Len(wbounds[1]) >= 3
    /\ Len(wbounds[2]) >= 2
    /\ boundaries = <<sections[1].start, sections[2].start, sections[2].end>>

\* The offsets at which a non-empty NUL-terminated string starts in bs: the
\* first byte or the byte after a NUL, itself not NUL, with a NUL further on.
StringStarts(bs) ==
    {o \in 0..(Len(bs) - 1) :
        /\ o = 0 \/ bs[o] = 0
        /\ bs[o + 1] # 0
        /\ \E j \in (o + 2)..Len(bs) : bs[j] = 0}

\* C6: for a CString section with non-empty bytes the boundaries are, apart
\* from section.start and section.end, exactly the start addresses of the
\* non-empty NUL-terminated strings of its bytes; none lies where a zero-length
\* string would (a NUL right after a NUL).
C6_CStringBoundaries ==
    \A i \in DOMAIN sections :
        (/\ WorkerReturned(i)
         /\ sections[i].kind = "CString"
         /\ bytes(sections[i]) # <<>>) =>
            Range(wbounds[i]) =
                {sections[i].start, sections[i].end}
                \cup {sections[i].start + o : o \in StringStarts(bytes(sections[i]))}

C6_Witness ==
    /\ WorkerReturned(1)
    /\ sections[1].kind = "CString"
    /\ bytes(sections[1]) = ExampleBytes
    /\ sections[1].start + 4 \in Range(wbounds[1])
    /\ sections[1].start + 3 \notin Range(wbounds[1])

\* The stride C7 names for each kind.
ClaimedStride(kind) ==
    CASE kind \in {"Ptr32", "Got32"} -> 4
      [] kind \in {"Ptr64", "Got64"} -> 8
      [] kind = "Unknown" -> 256

\* C7: for a section with non-empty bytes of kind Ptr32/Got32, Ptr64/Got64 or
\* an unrecognized kind the boundaries are exactly the addresses
\* start + k*stride below end, together with end, stride being 4, 8 and 256.
C7_StridedBoundaries ==
    \A i \in DOMAIN sections :
        (/\ WorkerReturned(i)
         /\ sections[i].kind \in {"Ptr32", "Got32", "Ptr64", "Got64", "Unknown"}
         /\ bytes(sections[i]) # <<>>) =>
            LET sec == sections[i]
                stride == ClaimedStride(sec.kind)
            IN  Range(wbounds[i]) =
                    {a \in sec.start..sec.end :
                        a < sec.end /\ (a - sec.start) % stride = 0}
                    \cup {sec.end}

C7_Witness ==
    /\ WorkerReturned(1)
    /\ sections[1].kind = "Unknown"
    /\ bytes(sections[1]) # <<>>
    /\ sections[1].end - sections[1].start = 2 * 256 + 1
    /\ Range(wbounds[1]) = {Base, Base + 256, Base + 512, Base + 513}

\* ------------------------------------------------------------ parse_blocks
Called == query # NoAddr

\* The section parse_blocks locates for the queried address.
Containing(addr) ==
    {i \in DOMAIN sections : sections[i].start <= addr /\ addr <= sections[i].end}

InLoadedSection(addr) ==
    /\ Containing(addr) # {}
    /\ sections[Min(Containing(addr))].kind # "Unloaded"

StartingAt(addr) == {i \in DOMAIN sections : sections[i].start = addr}
EndingAt(addr) == {i \in DOMAIN sections : sections[i].end = addr}

Markers(blocks) == SelectSeq(blocks, LAMBDA b : b.tag \in {"SectionStart", "SectionEnd"})
Contents(blocks) == SelectSeq(blocks, LAMBDA b : b.tag \in ContentTags)


\* C8 (as claimed, for an address whose section is not Unloaded): when addr is
\* the end of one section E and the start of another section S, the result
\* begins with SectionEnd(E), SectionStart(S), followed by SectionEnd(S)
\* exactly when S has empty bytes; when addr is only a start or only an end,
\* exactly the one corresponding marker is emitted; when neither, none.
C8_SectionMarkers ==
    (Called /\ InLoadedSection(query)) =>
        LET blocks == result.blocks
            S == StartingAt(query)
            E == EndingAt(query)
        IN  /\ ~result.panic
            /\ \A e \in E, s \in S :
                  e # s =>
                      /\ IsPrefix(<<SectionEnd(query, e), SectionStart(query, s)>>, blocks)
                      /\ (bytes(sections[s]) = <<>>) <=>
                            (Len(blocks) >= 3 /\ blocks[3] = SectionEnd(query, s))
            /\ (S # {} /\ E = {}) =>
                  \E s \in S : Markers(blocks) = <<SectionStart(query, s)>>
            /\ (S = {} /\ E # {}) =>
                  \E e \in E : Markers(blocks) = <<SectionEnd(query, e)>>
            /\ (S = {} /\ E = {}) => Markers(blocks) = <<>>

\* C9 (as claimed): for every boundary address lying in a section that is not
\* Unloaded, parse_blocks returns no content block when the address is the
\* containing section's end and exactly one content block otherwise.
C9_OneContentBlock ==
    (Called /\ query \in Range(boundaries) /\ InLoadedSection(query)) =>
        /\ ~result.panic
        /\ Len(Contents(result.blocks)) =
              IF query = sections[Min(Containing(query))].end THEN 0 ELSE 1

\* C10 (as claimed): parse_blocks never panics, neither for an address that no
\* section contains nor for one with fewer bytes left than the block reads.
C10_NeverPanics == Called => ~result.panic

\* ---------------------------------------------------------------- C11
UniqueAddrs(t) == \A i, j \in DOMAIN t : t[i].addr = t[j].addr => i = j

\* C11: once parse_debug and then parse_imports have run, whatever native
\* symbols, PDB symbols, entry point and imports the image has, the Symbol
\* Index is sorted by address and holds at most one entry per address.
C11_SortedAndUnique ==
    ipc = "imports" => IsSortedByAddr(tree) /\ UniqueAddrs(tree)

\* ---------------------------------------------------------------- C12
\* C12: right after parse_debug, before parse_imports, get_by_addr(a) finds
\* a Function for every address a that parse_debug inserted: every native
\* symbol, every PDB symbol and the entry point, in whatever order they lie.
C12_LookupFindsInserted ==
    (ipc = "debug" /\ lookup.addr \in DebugAddrs) => lookup.found.some

\* ---------------------------------------------------------------- C13
\* The entries of the tree that carry a given (unique) import name.
EntriesNamed(name) == {j \in DOMAIN tree : tree[j].name = name}

\* What the relocation refers to can be read: its symbol, the symbol's name
\* and the section that contains r_offset.
RelocReadable(reloc) ==
    /\ reloc.target = "Symbol" /\ reloc.sym_ok /\ reloc.name_ok
    /\ find_elf_section(object, reloc.r_offset) # NoSection

\* The pointer-sized value stored at r_offset (None when the section does
\* not hold that many bytes there).
StoredPointer(reloc) ==
    LET bs == data_range(object.elf_sections[find_elf_section(object, reloc.r_offset)],
                         reloc.r_offset, IF object.is_64 THEN 8 ELSE 4)
    IN  IF bs.some THEN Some(read_uint(bs.value, object.little)) ELSE None

ClaimedElfAddr(reloc, minus6(_)) ==
    IF ~RelocReadable(reloc) THEN None
    ELSE IF reloc.kind \in {"Absolute", "GLOB_DAT", "COPY"} THEN Some(reloc.r_offset)
    ELSE IF reloc.kind = "JUMP_SLOT" /\ StoredPointer(reloc).some
    THEN Some(minus6(StoredPointer(reloc).value))
    ELSE None

ElfImportsAre(minus6(_)) ==
    (ipc = "imports" /\ object.format = "Elf") =>
        \A i \in DOMAIN object.relocations :
            LET claimed == ClaimedElfAddr(object.relocations[i], minus6)
                hits == EntriesNamed(RelocName(i))
            IN  IF claimed.some
                THEN Cardinality(hits) = 1 /\ \A j \in hits : tree[j].addr = claimed.value
                ELSE hits = {}

\* C13 (as claimed): an ELF import is inserted at r_offset for Absolute,
\* GLOB_DAT and COPY relocations and at the stored pointer minus 6 for
\* JUMP_SLOT; every other kind and every unreadable relocation inserts nothing.
C13_ElfImportAddress == ElfImportsAre(LAMBDA v : v - 6)

\* C13 (amended): as above, but a JUMP_SLOT import is inserted at the stored
\* pointer minus 6 only when the pointer is at least 6, and at 0 otherwise.
C13_ElfImportAddressSaturating ==
    ElfImportsAre(LAMBDA v : IF v >= 6 THEN v - 6 ELSE 0)

C13_Witness ==
    /\ ipc = "imports" /\ object.format = "Elf"
    /\ \E i \in DOMAIN object.relocations :
        /\ object.relocations[i].kind = "JUMP_SLOT"
        /\ RelocReadable(object.relocations[i])
        /\ StoredPointer(object.relocations[i]) = Some(3)
        /\ \E j \in EntriesNamed(RelocName(i)) : tree[j].addr = 0

\* ---------------------------------------------------------------- C14
ThunkSize == IF object.is_64 THEN 8 ELSE 4

\* C14: per PE import descriptor one of two address rules applies, selected
\* by which thunk pointer is non-zero: with first_thunk non-zero the named
\* import in thunk slot k (ordinal and skipped slots counted) is inserted at
\* first_thunk + k * thunk size + relative_address_base; with first_thunk
\* zero it is inserted at hint + relative_address_base.
C14_PeImportAddress ==
    (ipc = "imports" /\ object.format = "Pe") =>
        \A d \in DOMAIN object.import_descs :
            LET desc == object.import_descs[d]
            IN  \A k \in DOMAIN desc.slots :
                    desc.slots[k].kind = "named" =>
                        LET hits == EntriesNamed(ThunkName(d - 1, k - 1))
                            claimed == IF desc.first_thunk # 0
                                       THEN desc.first_thunk + (k - 1) * ThunkSize
                                            + object.base
                                       ELSE desc.slots[k].hint + object.base
                        IN  /\ Cardinality(hits) = 1
                            /\ \A j \in hits : tree[j].addr = claimed

\* ---------------------------------------------------------------- C15
\* C15: when none of the four schemes accepts, parser returns exactly one
\* token whose text is the raw_name it was given, whatever the raw_name,
\* names that end in $got, $plt or $pltgot included.
C15_FallbackIsRawName ==
    (demangled.called /\ accepting = {}) => demangled.stream.tokens = <<raw_name>>

\* ---------------------------------------------------------------- C16
\* The raw name with its one trailing suffix removed, if it has one.
OneSuffixStripped(s) ==
    IF ends_with(s, GOT) THEN SubSeq(s, 1, Len(s) - Len(GOT))
    ELSE IF ends_with(s, PLTGOT) THEN SubSeq(s, 1, Len(s) - Len(PLTGOT))
    ELSE IF ends_with(s, PLT) THEN SubSeq(s, 1, Len(s) - Len(PLT))
    ELSE s

\* C16: before the schemes are consulted a single trailing $got, $plt or
\* $pltgot is stripped, and never more than one ("foo$plt$got" is handed on
\* as "foo$plt").
C16_OneSuffixStripped ==
    demangled.called => demangled.handed = OneSuffixStripped(raw_name)

\* ---------------------------------------------------------------- C17
\* The first of the four schemes, in the order legacy Rust, Itanium,
\* Rust v0, MSVC, that accepts; "simple" when none does.
FirstAccepting ==
    IF "rust_legacy" \in accepting THEN "rust_legacy"
    ELSE IF "itanium" \in accepting THEN "itanium"
    ELSE IF "rust" \in accepting THEN "rust"
    ELSE IF "msvc" \in accepting THEN "msvc"
    ELSE "simple"

\* C17: the schemes are tried in the order legacy Rust, Itanium, Rust v0,
\* MSVC and the result of the first one that accepts is returned; a token
\* stream comes back whichever schemes accept.
C17_FirstAcceptingSchemeWins ==
    demangled.called =>
        /\ demangled.stream.by = FirstAccepting
        /\ demangled.stream =
             IF FirstAccepting = "simple"
             THEN TokenStream_simple(demangled.handed)
             ELSE scheme_parse(FirstAccepting, demangled.handed, accepting).value

C17_Witness ==
    /\ demangled.called
    /\ accepting = {"itanium", "rust", "msvc"}
    /\ demangled.stream.by = "itanium"

\* ---------------------------------------------------------------- C18
\* A compiler-made name: empty, or with one of the four synthetic prefixes.
Synthetic(name) ==
    \/ name = <<>>
    \/ \E prefix \in {GCC_EXCEPT_TABLE, STR_DOT, DOT_L, ANON_DOT} :
          Len(prefix) <= Len(name) /\ \A c \in DOMAIN prefix : name[c] = prefix[c]

NamedEntries == {j \in DOMAIN tree : ~Synthetic(tree[j].name)}

\* C18: once label() has run, intrinsic is true for exactly the functions
\* whose name is empty or starts with GCC_except_table, str., .L or anon.,
\* and named_len is the number of the other functions after one run (10
\* symbols with 3 synthetic give 7) and that number again for each further run.
C18_LabelCounts ==
    labelled >= 1 =>
        /\ \A j \in DOMAIN tree : tree[j].intrinsic <=> Synthetic(tree[j].name)
        /\ named_len = labelled * Cardinality(NamedEntries)

C18_Witness ==
    /\ labelled = 1
    /\ Len(tree) = 10
    /\ Cardinality({j \in DOMAIN tree : tree[j].intrinsic}) = 3
    /\ named_len = 7

\* ---------------------------------------------------------------- C19
\* The queried address lies in a Code section with bytes, before its end,
\* and the decoder has neither an instruction nor an error there.
UndecodedCode ==
    /\ Called /\ Containing(query) # {}
    /\ LoadedCode(Min(Containing(query)))
    /\ query < sections[Min(Containing(query))].end
    /\ instruction_by_addr(query) = 0 /\ error_by_addr(query) = 0

\* The nearest address after addr that has an instruction, a decode error or
\* a symbol, or is the section end.
NextStop(addr, section) ==
    Min({b \in (addr + 1)..section.end :
            \/ b = section.end
            \/ instruction_by_addr(b) # 0
            \/ error_by_addr(b) # 0
            \/ b \in index})

\* C19: in a Code section, at an address with neither instruction nor decode
\* error, parse_blocks emits one Bytes block that starts at addr and ends
\* just before the nearest following address with an instruction, a decode
\* error or a symbol, or the section end: never empty, never over a label.
C19_BytesUpToNextStop ==
    UndecodedCode =>
        LET section == sections[Min(Containing(query))]
        IN  /\ ~result.panic
            /\ Len(Contents(result.blocks)) = 1
            /\ Contents(result.blocks)[1].tag = "Bytes"
            /\ Contents(result.blocks)[1].addr = query
            /\ Len(Contents(result.blocks)[1].bytes) = NextStop(query, section) - query

\* ---------------------------------------------------------------- C20
\* parse_blocks applied to boundaries[i], boundaries[i + 1], ... in turn, the
\* blocks of the calls concatenated; a panic of any call ends the walk.
RECURSIVE BlocksFrom(_)
BlocksFrom(i) ==
    IF i > Len(boundaries) THEN Returned(<<>>)
    ELSE IF parse_blocks(boundaries[i]).panic \/ BlocksFrom(i + 1).panic THEN Panicked
    ELSE Returned(parse_blocks(boundaries[i]).blocks \o BlocksFrom(i + 1).blocks)

MarkersOf(blocks, tag, i) ==
    {p \in DOMAIN blocks : blocks[p].tag = tag /\ blocks[p].sec = i}

\* C20: parse_blocks applied to every boundary address in ascending order
\* yields, for every section that is neither Unloaded nor Debug, exactly one
\* SectionStart and exactly one SectionEnd, the start before the end; also
\* for sections with empty bytes and for a start that is another's end.
C20_OneStartOneEnd ==
    pc = "done" =>
        \A i \in DOMAIN sections :
            sections[i].kind \notin {"Unloaded", "Debug"} =>
                /\ ~BlocksFrom(1).panic
                /\ Cardinality(MarkersOf(BlocksFrom(1).blocks, "SectionStart", i)) = 1
                /\ Cardinality(MarkersOf(BlocksFrom(1).blocks, "SectionEnd", i)) = 1
                /\ \A p \in MarkersOf(BlocksFrom(1).blocks, "SectionStart", i),
                      q \in MarkersOf(BlocksFrom(1).blocks, "SectionEnd", i) : p < q

\* ---------------------------------------------------------------- C21
\* The Code sections with bytes that hold addr (start <= addr < end).
CodeSectionsAt(addr) ==
    {i \in DOMAIN sections :
        LoadedCode(i) /\ sections[i].start <= addr /\ addr < sections[i].end}

\* A Label block stands directly before an Instruction block.
LabelBeforeInstruction(blocks) ==
    \E p \in 1..(Len(blocks) - 1) :
        /\ blocks[p].tag = "Label" /\ blocks[p].sym = query
        /\ blocks[p + 1].tag = "Instruction"

HasLabel(blocks) == \E p \in DOMAIN blocks : blocks[p].tag = "Label"

\* C21: in a Code section, where the decoder has an instruction at addr,
\* parse_blocks(addr) puts a Label block directly before the Instruction
\* block exactly when the Symbol Index has a function at addr and addr is
\* not the section's start; no Label is ever emitted at a section's start.
C21_LabelBeforeInstruction ==
    Called =>
        /\ \A i \in CodeSectionsAt(query) :
              instruction_by_addr(query) # 0 =>
                  /\ ~result.panic
                  /\ LabelBeforeInstruction(result.blocks)
                       <=> (query \in index /\ query # sections[i].start)
        /\ StartingAt(query) # {} => ~HasLabel(result.blocks)

C21_Witness ==
    /\ Called /\ CodeSectionsAt(query) # {}
    /\ instruction_by_addr(query) # 0
    /\ query \in index
    /\ LabelBeforeInstruction(result.blocks)

\* ---------------------------------------------------------------- C22
\* The base-256 digits of a, most significant first, size of them.
RECURSIVE Digits256(_, _)
Digits256(a, size) ==
    IF size = 0 THEN <<>> ELSE Append(Digits256(a \div 256, size - 1), a % 256)

PointerBlocks(blocks) == {p \in DOMAIN blocks : blocks[p].tag = "Pointer"}

\* The function the index holds at the address a pointer value names.
FunctionAtValue(digits, section) ==
    LET targets == {a \in index : Digits256(a, Len(digits)) = digits
                                  /\ a # section.start}
    IN  IF targets = {} THEN NoAddr ELSE Min(targets)

\* C22: in a Ptr32 or Ptr64 section the Pointer block at addr carries the 4-
\* or 8-byte integer stored at addr, read in the image's endianness, and the
\* Symbol Index entry found at that value; no function when the index has
\* none there or when that address is the containing section's start.
C22_PointerValueAndFunction ==
    (Called /\ ~result.panic) =>
        \A p \in PointerBlocks(result.blocks) :
            LET section == sections[Min(Containing(query))]
                size == IF section.kind = "Ptr32" THEN 4 ELSE 8
                stored == bytes_by_addr(section, query, size)
            IN  /\ result.blocks[p].addr = query
                /\ result.blocks[p].bytes =
                     (IF endianness = "little" THEN Reverse(stored) ELSE stored)
                /\ result.blocks[p].sym = FunctionAtValue(result.blocks[p].bytes, section)

\* ---------------------------------------------------------------- C23
GotBlocks(blocks) == {p \in DOMAIN blocks : blocks[p].tag = "Got"}

\* C23: the size recorded in a Got block is the entry width of its section
\* kind, which is also that section's boundary stride: 4 in a Got32 section
\* and 8 in a Got64 section.
C23_GotSizeIsEntryWidth ==
    (Called /\ ~result.panic) =>
        \A p \in GotBlocks(result.blocks) :
            LET section == sections[Min(Containing(query))]
            IN  /\ section.kind \in {"Got32", "Got64"}
                /\ result.blocks[p].size = (IF section.kind = "Got32" THEN 4 ELSE 8)
                /\ result.blocks[p].size = stride_of(section.kind)

\* ---------------------------------------------------------------- C24
\* The CString blocks parse_blocks yields at the boundaries inside section i.
CStringBlocksOf(i) ==
    {b \in UNION {Range(parse_blocks(a).blocks) :
                    a \in {x \in Range(boundaries) :
                             sections[i].start <= x /\ x < sections[i].end}} :
        b.tag = "CString"}

\* The bytes from offset o (counted from 0) up to the first NUL or the end.
UpToNul(bs, o) ==
    LET nuls == {j \in (o + 1)..Len(bs) : bs[j] = 0}
    IN  SubSeq(bs, o + 1, IF nuls = {} THEN Len(bs) ELSE Min(nuls) - 1)

\* C24: for a CString section with bytes, the CString block at a boundary
\* holds the bytes from there up to the first NUL (or the end of the bytes),
\* and over all boundaries every non-NUL byte of the section lies in exactly
\* one CString block, the bytes of an unterminated last string included.
C24_EveryByteInOneCString ==
    pc = "done" =>
        \A i \in DOMAIN sections :
            (sections[i].kind = "CString" /\ bytes(sections[i]) # <<>>) =>
                /\ \A b \in CStringBlocksOf(i) :
                      b.bytes = UpToNul(bytes(sections[i]), b.addr - sections[i].start)
                /\ \A o \in 0..(Len(bytes(sections[i])) - 1) :
                      bytes(sections[i])[o + 1] # 0 =>
                          Cardinality({b \in CStringBlocksOf(i) :
                                          /\ b.addr <= sections[i].start + o
                                          /\ sections[i].start + o < b.addr + Len(b.bytes)}) = 1


\* ---------------------------------------------------------------- C25
\* The rows a tokenized block shows: every row opens with its address.
Rows(s) == Cardinality({i \in 1..Len(s) : s[i].text = "addr"})

CeilDiv(n, d) == (n + d - 1) \div d

\* C25: for a Bytes block of n bytes, 0 <= n <= 256, Block::len() is the
\* number of rows tokenize renders for it, which is ceil(n / 32).
C25_BytesLenIsRows ==
    (tokenized /\ block.tag = "Bytes" /\ stream0 = <<>>) =>
        /\ Rows(stream) = CeilDiv(Len(block.bytes), 32)
        /\ Block_len(block) = Rows(stream)

\* The rendered rows alone are ceil(n / 32).
C25_RowsAreCeil ==
    (tokenized /\ block.tag = "Bytes" /\ stream0 = <<>>) =>
        Rows(stream) = CeilDiv(Len(block.bytes), 32)

\* ---------------------------------------------------------------- C26

\* C26: Block::tokenize only appends: the tokens the stream held before
\* the call are still there, unchanged, after it, for every block, the
\* zero-byte Bytes block included.
C26_TokenizeOnlyAppends == tokenized => IsPrefix(stream0, stream)

\* Blocks that hold at least one byte or are no Bytes blocks only append.
C26_NonEmptyOnlyAppends ==
    (tokenized /\ ~(block.tag = "Bytes" /\ block.bytes = <<>>)) =>
        IsPrefix(stream0, stream)


\* ---------------------------------------------------------------- C27
NonEmptyBetween(t, lo, hi) == {i \in lo..hi : t.commands[i + 1] # <<>>}

\* The nearest older non-empty history entry, index 0 when there is none.
NearestOlder(t) ==
    LET older == NonEmptyBetween(t, 0, t.command_position - 1)
    IN  IF older = {} THEN 0 ELSE CHOOSE i \in older : \A j \in older : j <= i

\* The nearest newer non-empty history entry, the last entry when there is none.
NearestNewer(t) ==
    LET newer == NonEmptyBetween(t, t.command_position + 1, Len(t.commands) - 1)
    IN  IF newer = {} THEN Len(t.commands) - 1 ELSE Min(newer)

\* C27: scroll_to_prev_cmd moves command_position to the nearest older
\* non-empty history entry (index 0 when there is none) and
\* scroll_to_next_cmd to the nearest newer non-empty one (the last entry
\* when there is none); neither stops on an empty entry that has a
\* non-empty one beyond it.
C27_ScrollSkipsEmptyEntries ==
    [][/\ ArrowUp => terminal'.command_position = NearestOlder(terminal)
       /\ ArrowDown => terminal'.command_position = NearestNewer(terminal)]_vars

\* What the loops do: one step towards the end they scroll to.
C27_ScrollMovesOneEntry ==
    [][/\ ArrowUp => terminal'.command_position =
                        IF terminal.command_position = 0 THEN 0
                        ELSE terminal.command_position - 1
       /\ ArrowDown => terminal'.command_position =
                        IF terminal.command_position = Len(terminal.commands) - 1
                        THEN terminal.command_position
                        ELSE terminal.command_position + 1]_vars

\* ---------------------------------------------------------------- C28
\* C28: after any sequence of terminal operations command_position is
\* below commands.len(), cursor_position is at most the length of the
\* current line and commands_unprocessed is at most commands.len() - 1, so
\* take_commands never slices out of range.
C28_TerminalInvariants ==
    /\ terminal.command_position < Len(terminal.commands)
    /\ terminal.cursor_position <= Len(current_line(terminal))
    /\ terminal.commands_unprocessed <= Len(terminal.commands) - 1
    /\ ~taken.panicked

\* The two positions do stay in range.
C28_PositionsInRange ==
    /\ terminal.command_position < Len(terminal.commands)
    /\ terminal.cursor_position <= Len(current_line(terminal))


\* ---------------------------------------------------------------- C29
\* The workers that have yet to push their event.
Unpushed == {i \in DOMAIN workers : workers[i].pc \in {"parse", "push"}}

\* The loads under way: a worker yet to push, or its event yet to be handled.
Pending ==
    Cardinality(Unpushed) + CountOf(ui_queue, "BinaryLoaded")
    + CountOf(ui_queue, "BinaryFailed")

\* A worker starts only when loading is false, which sets it to true, and
\* loading returns to false only when the UI pops a BinaryLoaded or
\* BinaryFailed event.
FlagDiscipline ==
    /\ Len(workers') > Len(workers) => ~loading /\ loading'
    /\ (loading /\ ~loading') =>
           /\ ui_queue # <<>>
           /\ Head(ui_queue) \in {"BinaryLoaded", "BinaryFailed"}
           /\ ui_queue' = Tail(ui_queue)

\* C29: at most one binary-loading worker thread exists at any time:
\* offload_binary_processing starts a worker only when the loading flag is
\* false and sets it to true, the flag returns to false only when the UI
\* handles the BinaryLoaded or BinaryFailed event pushed by that worker, and
\* requests arriving while loading is true start nothing.
C29_AtMostOneWorkerThread ==
    /\ [](Len(workers) <= 1)
    /\ [][FlagDiscipline]_vars

\* C29, amended: at most one worker that has not yet pushed its event
\* exists at any time, and its load is the only one under way; a worker
\* that has pushed may still be leaving UIQueue::push when the next starts.
C29_AtMostOneUnpushedWorker ==
    /\ [](/\ Pending <= 1
          /\ Pending = 1 => loading)
    /\ [][FlagDiscipline]_vars

\* A worker parses while an earlier one, its event handled, is not gone yet.
C29_Witness ==
    /\ loading
    /\ \E i, j \in DOMAIN workers :
           workers[i].pc = "redraw" /\ workers[j].pc = "parse"

\* ---------------------------------------------------------------- C30
\* C30: every accepted load request completes: once the loading flag is
\* true, the worker finishing its parse and the UI loop calling
\* handle_ui_events again and again, the flag becomes false again, whatever
\* the number of other events pushed to the 100-slot queue meanwhile.
C30_LoadCompletes == loading ~> ~loading

\* A load whose event found room in the queue does complete.
C30_QueuedLoadCompletes ==
    (CountOf(ui_queue, "BinaryLoaded") + CountOf(ui_queue, "BinaryFailed") > 0)
        ~> ~loading

====
